---- MODULE Spec2Model ----
(***************************************************************************)
(* A model of the per-camera stream pipeline of IP-Freely:                 *)
(*   IpFreelyStreamProcessor  (Source/IpFreelyStreamProcessor.cpp)         *)
(*   IpFreelyMotionDetector   (Source/IpFreelyMotionDetector.cpp)          *)
(*                                                                         *)
(* Units.  Frame rates are held in hundredths of a frame per second        *)
(* (25.0 fps = 2500), so the 0.1 fps drift threshold is 10.  Durations     *)
(* (m_fileDurationSecs, m_requiredFileDurationSecs) are held in            *)
(* milliseconds, so "+= m_updatePeriodMillisecs / 1000.0" is "+ period".   *)
(* A null pointer is the empty sequence, a live object a 1-tuple.          *)
(***************************************************************************)
EXTENDS Integers, Sequences, FiniteSets, TLC

VARIABLES
    \* ---- configuration handed to the stream processor's constructor
    m_recordingSchedule,        \* 7 x 24 matrix of BOOLEAN, or << >>
    m_motionSchedule,           \* 7 x 24 matrix of BOOLEAN, or << >>
    cameraMaxFps,               \* m_cameraDetails.cameraMaxFps
    motionDectorMode,           \* m_cameraDetails.motionDectorMode
    camera,                     \* the frame rates the opened camera may report
    m_requiredFileDurationSecs, \* milliseconds
    \* ---- IpFreelyStreamProcessor members
    m_useRecordingSchedule,
    m_useMotionSchedule,
    m_originalFps,
    m_fps,
    m_updatePeriodMillisecs,
    m_enableVideoWriting,
    m_currentTime,              \* <<tm_wday, tm_hour>> of the tick's time stamp
    m_videoCapture,             \* isOpened() of the capture
    m_videoFrame,               \* sequence number of the frame grabbed last
    videoFrameType,             \* m_videoFrame.type()
    m_currentFrame,             \* the QImage handed to the user interface
    frameFormats,               \* the cv::Mat types the camera delivers
    m_videoWriter,              \* [open, held, peak] (see NullWriter)
    m_fileDurationSecs,         \* milliseconds
    m_motionRectangle,          \* "null" (QRect()) or "nonzero"
    m_motionDetector,           \* << >> or <<detector record>>
    m_eventThread,              \* period of the pump's timer thread
    pc,                         \* position of the pump thread inside its callback
    ticks,                      \* callbacks started so far
    \* ---- the display thread
    lastCall,                   \* the public method whose return produced this state
    \* ---- observations
    usedEnable,                 \* << >> or <<what this tick's CreateCaptureObjects read and did>>
    lastFileIo,                 \* whether the last CreateCaptureObjects failed to start a file
    fpsCheck,                   \* what this tick's CheckFps saw and did
    retired,                    \* << >> or <<observations of the detector destroyed last>>
    \* ---- the disk space manager and the save folder it watches
    disk,                       \* names of the sub-directories of the save folder
    manager,                    \* << >> or <<IpFreelyDiskSpaceManager record>>
    dsmObs,                     \* what the manager's current tick scanned and attempted
    \* ---- construction of a stream processor
    streamUrl,                  \* m_cameraDetails.streamUrl, a sequence of characters
    construction,               \* how far the constructor got and what it left behind
    \* ---- the display thread
    caller,                     \* where it is within a call of VideoWritingEnabled()
    \* ---- the detector's worker thread
    worker,                     \* << >>, or the frame it is handling between closing
                                \* a full file and opening the next
    \* ---- DetectMotion on rectangles
    detect,                     \* the detector's configuration, rectangle and result
    \* ---- output files in the day directories of the save folder
    openIn,                     \* the day, and the directory of each recorder's open file
    \* ---- output file names
    clock                       \* time(nullptr) in ms, and the paths files were opened at

frameVars == <<m_videoFrame, videoFrameType, m_currentFrame>>
cfgVars == <<m_recordingSchedule, m_motionSchedule, cameraMaxFps, motionDectorMode, camera,
             frameFormats,
             m_requiredFileDurationSecs, m_useRecordingSchedule, m_useMotionSchedule>>
fpsVars == <<m_originalFps, m_fps, m_updatePeriodMillisecs, m_videoCapture, m_eventThread>>
recVars == <<m_videoWriter, m_fileDurationSecs>>
uiVars  == <<lastCall>>
obsVars == <<usedEnable, lastFileIo, fpsCheck, retired>>
\* every member of the stream processor (the state StartVideoWriting could touch)
procVars == <<cfgVars, fpsVars, recVars, m_enableVideoWriting, m_currentTime,
              frameVars, m_motionRectangle, m_motionDetector, pc, ticks>>
diskVars == <<disk, manager, dsmObs>>
\* everything that is not part of a stream processor or its detector
ctorVars == <<streamUrl, construction>>
callVars == <<caller, worker>>
apartVars == <<diskVars, ctorVars, callVars, detect, openIn, clock>>
vars == <<procVars, uiVars, obsVars, apartVars>>

----------------------------------------------------------------------------
\* Bounds of the model.
MaxTicks  == 2      \* pump callbacks per behaviour (Spec)
MaxFrames == 21     \* frames handed to a lone detector (SpecDetector)
MaxQueue  == 2      \* frames waiting in a lone detector's queue (SpecDetector)

\* Program constants.
MIN_FPS == 100              \* static constexpr double MIN_FPS = 1.0
MAX_FPS == 6000             \* static constexpr double MAX_FPS = 60.0
HOLD_ON_OFF_SECS == 10      \* static constexpr size_t HOLD_ON_OFF_SECS = 10

Max(a, b) == IF a >= b THEN a ELSE b
Abs(a)    == IF a >= 0 THEN a ELSE -a

\* What a constructor call left: outcome ("none" before the call, "constructed",
\* "threw" or "terminated"), the exception thrown, whether a capture handle and
\* a pump timer exist, whether the process still runs, and how
\* CreateVideoCapture made the cv::VideoCapture ("none" when it did not get
\* that far, "device" from an index, "url" from a path).
NotConstructed ==
    [outcome |-> "none", error |-> "none", capture |-> FALSE, timer |-> FALSE,
     running |-> TRUE, openedAs |-> "none"]
Constructed == [NotConstructed EXCEPT !.outcome = "constructed", !.capture = TRUE,
                                      !.timer = TRUE, !.openedAs = "device"]
\* The stream processor of the behaviour has been constructed on a device id.
ConstructionOver ==
    /\ streamUrl = <<"0">>
    /\ construction = Constructed

\* The display thread is not within a call.  holds: the mutexes it holds.
NoCaller == [at |-> "none", holds |-> {}]

\* No disk space manager is part of the behaviour.
NoDsmObservations ==
    [scanned |-> {}, attempts |-> << >>, errors |-> 0, over |-> FALSE,
     overSpace |-> FALSE, threw |-> FALSE, failedEarlier |-> {}]
\* No file name is followed.  ms: the time in milliseconds, of which
\* time(nullptr) gives the seconds; made: the paths at which a recorder has
\* opened a file, each the recorder and the time stamp in the name; again: the
\* paths at which a recorder opened a file a second time.
NoClock == [ms |-> 0, made |-> {}, again |-> {}]

\* No recorder's file is followed to its day directory.  today: the day whose
\* name CreateCaptureObjects gives a directory; processor, detector: the
\* directory of the open output file of each, 0 when it has none.
NoFilesOpen == [today |-> 0, processor |-> 0, detector |-> 0]

DiskSpaceManagerAbsent ==
    /\ disk = {}
    /\ manager = << >>
    /\ dsmObs = NoDsmObservations
    /\ openIn = NoFilesOpen

----------------------------------------------------------------------------
\* Schedules.

Days  == 1..7
Hours == 1..24

EmptySchedule == << >>
AllFalseSchedule == [d \in Days |-> [h \in Hours |-> FALSE]]
\* active on Wednesday 12:00-12:59 only
MixedSchedule == [d \in Days |-> [h \in Hours |-> (d = 4 /\ h = 13)]]
Schedules == {EmptySchedule, AllFalseSchedule, MixedSchedule}

\* <<tm_wday, tm_hour>> samples of local time
TimeSlots == {<<3, 12>>, <<6, 23>>}

\* schedule[tm_wday][tm_hour] of the C++ (0-based) on the 1-based matrix
Cell(schedule, t) == schedule[t[1] + 1][t[2] + 1]

\* the inner and the outer loop of IsScheduleEnabled, from hour h and day d on
RECURSIVE AnyHour(_, _)
AnyHour(day, h) ==
    IF h > Len(day) THEN FALSE
    ELSE IF day[h] THEN TRUE
    ELSE AnyHour(day, h + 1)

RECURSIVE AnyDay(_, _)
AnyDay(schedule, d) ==
    IF d > Len(schedule) THEN FALSE
    ELSE IF AnyHour(schedule[d], 1) THEN TRUE
    ELSE AnyDay(schedule, d + 1)

IsScheduleEnabled_firstDayOnly(schedule) ==
    Len(schedule) >= 1 /\ AnyHour(schedule[1], 1)

IsScheduleEnabled(schedule) == AnyDay(schedule, 1)

\* Whether VerifySchedule throws std::invalid_argument.
VerifyScheduleThrows(schedule) ==
    /\ schedule # << >>
    /\ (Len(schedule) # 7 \/ Len(schedule[1]) # 24)

\* The value VerifySchedule returns for a well-shaped or empty schedule.
VerifySchedule(schedule) ==
    IF schedule # << >> THEN IsScheduleEnabled(schedule) ELSE FALSE

----------------------------------------------------------------------------
\* Frame rates.

PeriodMillisecs_rounded(fps) == (200000 + fps) \div (2 * fps)

\* static_cast<unsigned int>(1000.0 / fps)
PeriodMillisecs(fps) == 100000 \div fps

\* static_cast<size_t>(std::ceil(fps))
CeilFps(fps) == (fps + 99) \div 100

ComputeFps_neverChanged(fps, originalFps) ==
    LET a == IF fps > originalFps THEN originalFps ELSE fps
        b == IF a < MIN_FPS THEN MIN_FPS ELSE a
        c == IF b > MAX_FPS THEN MAX_FPS ELSE b
    IN  [fps |-> c, changed |-> FALSE]

ComputeFps_noOriginalClamp(fps, originalFps) ==
    LET b == IF fps < MIN_FPS THEN MIN_FPS ELSE fps
        c == IF b > MAX_FPS THEN MAX_FPS ELSE b
    IN  [fps |-> c, changed |-> Abs(fps - c) > 10]

ComputeFps_noMinClamp(fps, originalFps) ==
    LET a == IF fps > originalFps THEN originalFps ELSE fps
        c == IF a > MAX_FPS THEN MAX_FPS ELSE a
    IN  [fps |-> c, changed |-> Abs(fps - c) > 10]

\* ComputeFps: the new m_fps and the value returned (recording FPS moved by > 0.1)
ComputeFps(fps, originalFps) ==
    LET a == IF fps > originalFps THEN originalFps ELSE fps
        b == IF a < MIN_FPS THEN MIN_FPS ELSE a
        c == IF b > MAX_FPS THEN MAX_FPS ELSE b
    IN  [fps |-> c, changed |-> Abs(fps - c) > 10]

\* The drift test of CheckFps: std::abs(fps - m_originalFps) > 0.1
FpsDrifted(reported, originalFps) == Abs(reported - originalFps) > 10

----------------------------------------------------------------------------
\* Video writers.  open: the cv::Ptr is non-null (and the writer is opened);
\* held: output files this object holds open; peak: the most it ever held at
\* once; again: it has started a file after an earlier one.

NullWriter == [open |-> FALSE, held |-> 0, peak |-> 0, again |-> FALSE]

ReleaseWriter_keepsFile(w) == [w EXCEPT !.open = FALSE]

\* m_videoWriter.release()
ReleaseWriter(w) ==
    [w EXCEPT !.open = FALSE, !.held = IF w.open THEN w.held - 1 ELSE w.held]

\* m_videoWriter = cv::makePtr<cv::VideoWriter>(...), then release() if it did not
\* open: the new file is opened while whatever w still holds is open, and the
\* assignment then drops the writer w pointed to.
MakeWriter(w, opened) ==
    IF opened
    THEN [open |-> TRUE, held |-> w.held + 1 - (IF w.open THEN 1 ELSE 0),
          peak |-> Max(w.peak, w.held + 1), again |-> (w.again \/ w.peak >= 1)]
    ELSE ReleaseWriter(w)

\* What the file system does to one attempt to start a file.
IoOutcomes == {"ok", "dirFail", "openFail"}

----------------------------------------------------------------------------
\* IpFreelyMotionDetector.

\* What DetectMotion makes of one frame: whether it reports a qualifying motion
\* event, and whether the smoothed rectangle it leaves has an area.  An event
\* needs a rectangle with an area (CheckForIntersections).
FrameOutcomes ==
    {[motion |-> TRUE,  rect |-> "nonzero"],
     [motion |-> FALSE, rect |-> "nonzero"],
     [motion |-> FALSE, rect |-> "null"]}

HoldOffFrameCountLimit_floor(fps) == (fps \div 100) * HOLD_ON_OFF_SECS

\* m_holdOffFrameCountLimit(static_cast<size_t>(std::ceil(m_fps)) * HOLD_ON_OFF_SECS)
HoldOffFrameCountLimit(fps) == CeilFps(fps) * HOLD_ON_OFF_SECS

\* What the observer of a detector keeps: the frames pushed and handled, in order;
\* quiet: frames handled since the last one with a motion event; openAtMotion:
\* that frame left a recording session open; ioLost: since then a rotation of
\* the session's file failed to start the new file; atDestroy: frames waiting
\* in the queue when the destructor started.
NoObservations ==
    [pushed |-> << >>, handled |-> << >>, quiet |-> 0,
     openAtMotion |-> FALSE, ioLost |-> FALSE, atDestroy |-> 0]

\* The detector as its constructor leaves it.
NewDetector(fps, required) ==
    [m_fps                      |-> fps,
     m_requiredFileDurationSecs |-> required,
     m_updatePeriodMillisecs    |-> PeriodMillisecs(fps),
     m_holdOffFrameCountLimit   |-> HoldOffFrameCountLimit(fps),
     m_holdOffFrameCount        |-> 0,
     m_motionBoundingRect       |-> "null",
     m_fileDurationSecs         |-> 0,
     m_videoWriter              |-> NullWriter,
     m_writingStream            |-> FALSE,
     queue                      |-> << >>,
     obs                        |-> NoObservations]

\* core_lib::threads::MessageQueueThread: Push appends, the worker takes the
\* message at the front; eOnDestroyOptions chosen by the detector's constructor.
Push(queue, msg) == Append(queue, msg)
OnDestroyOption == "processRemainingItems"
DestructorMayReturn(d) == OnDestroyOption = "processRemainingItems" => d.queue = << >>

AddNextFrame_dropsWhenBusy(d, frame) ==
    IF d.queue # << >> THEN d ELSE [d EXCEPT !.queue = Push(@, frame)]

\* AddNextFrame: every frame is pushed
AddNextFrame(d, frame) == [d EXCEPT !.queue = Push(@, frame)]

\* std::make_shared<cv::Mat>(videoFrame) in AddNextFrame: cv::Mat's copy
\* constructor makes a header on the pixel buffer of m_videoFrame.  What the
\* cv::Mat queued when m_videoFrame held `frame` can show now: that frame, or,
\* when the capture has written a later frame of the same size and type into
\* the buffer instead of a new one, the later frame.
QueuedFrameShows(frame) ==
    IF frame = m_videoFrame THEN {frame} ELSE {frame, m_videoFrame}

CurrentMotionRect(d) == d.m_motionBoundingRect
WritingStream(d) == d.m_writingStream

DetCreateCaptureObjects_flagsUnopened(d, io) ==
    IF d.m_videoWriter.open /\ d.m_fileDurationSecs < d.m_requiredFileDurationSecs
    THEN [d |-> d, threw |-> FALSE]
    ELSE LET d1 == IF d.m_videoWriter.open
                   THEN [d EXCEPT !.m_videoWriter = ReleaseWriter(@),
                                  !.m_writingStream = FALSE]
                   ELSE d
         IN  IF io = "dirFail"
             THEN [d |-> d1, threw |-> TRUE]
             ELSE [d |-> [d1 EXCEPT !.m_fileDurationSecs = 0,
                                    !.m_videoWriter = MakeWriter(@, io = "ok"),
                                    !.m_writingStream = TRUE],
                   threw |-> FALSE]

\* IpFreelyMotionDetector::CreateCaptureObjects.  threw: it left by the exception
\* of a failed create_directories.
DetCreateCaptureObjects(d, io) ==
    IF d.m_videoWriter.open /\ d.m_fileDurationSecs < d.m_requiredFileDurationSecs
    THEN [d |-> d, threw |-> FALSE]
    ELSE LET d1 == IF d.m_videoWriter.open
                   THEN [d EXCEPT !.m_videoWriter = ReleaseWriter(@),
                                  !.m_writingStream = FALSE]
                   ELSE d
         IN  IF io = "dirFail"
             THEN [d |-> d1, threw |-> TRUE]
             ELSE [d |-> [d1 EXCEPT !.m_fileDurationSecs = 0,
                                    !.m_videoWriter = MakeWriter(@, io = "ok"),
                                    !.m_writingStream = IF io = "ok" THEN TRUE ELSE @],
                   threw |-> FALSE]

\* IpFreelyMotionDetector::WriteVideoFrame
DetWriteVideoFrame(d) ==
    IF d.m_videoWriter.open
    THEN [d EXCEPT !.m_fileDurationSecs = @ + d.m_updatePeriodMillisecs]
    ELSE d

MessageHandler_recordsEveryFrame(d, outcome, io) ==
    LET d1 == [d EXCEPT !.m_motionBoundingRect = outcome.rect,
                        !.m_holdOffFrameCount  = IF outcome.motion THEN 0 ELSE @]
        r  == DetCreateCaptureObjects(d1, io)
    IN  IF r.threw THEN r.d ELSE DetWriteVideoFrame(r.d)

\* IpFreelyMotionDetector::MessageHandler on a frame that DetectMotion judges as
\* `outcome`, with `io` what the file system does if a file is started.
MessageHandler(d, outcome, io) ==
    LET recording == d.m_videoWriter.open
        count     == IF outcome.motion THEN 0
                     ELSE IF recording THEN d.m_holdOffFrameCount + 1
                     ELSE d.m_holdOffFrameCount
        expired   == count = d.m_holdOffFrameCountLimit
        d1 == [d EXCEPT !.m_motionBoundingRect = outcome.rect,
                        !.m_holdOffFrameCount  = IF expired THEN 0 ELSE count,
                        !.m_videoWriter        = IF expired THEN ReleaseWriter(@) ELSE @,
                        !.m_writingStream      = IF expired THEN FALSE ELSE @]
        r  == IF outcome.motion \/ (recording /\ ~expired)
              THEN DetCreateCaptureObjects(d1, io)
              ELSE [d |-> d1, threw |-> FALSE]
    IN  IF r.threw THEN r.d ELSE DetWriteVideoFrame(r.d)

\* Whether MessageHandler, on this frame, tries to start a file.
StartsFile(d, outcome) ==
    LET recording == d.m_videoWriter.open
        expired   == ~outcome.motion /\ recording
                     /\ d.m_holdOffFrameCount + 1 = d.m_holdOffFrameCountLimit
    IN  /\ outcome.motion \/ (recording /\ ~expired)
        /\ recording => d.m_fileDurationSecs >= d.m_requiredFileDurationSecs

\* The observer's record after the worker handled the frame at the front.
Observe(d, outcome, io, after) ==
    [d.obs EXCEPT
       !.handled      = Append(@, Head(d.queue)),
       !.quiet        = IF outcome.motion THEN 0 ELSE @ + 1,
       !.openAtMotion = IF outcome.motion THEN after.m_videoWriter.open ELSE @,
       !.ioLost       = IF outcome.motion THEN FALSE
                        ELSE @ \/ (StartsFile(d, outcome) /\ io # "ok")]

\* One iteration of the detector's worker thread on detector d.
WorkerStep(d, outcome, io) ==
    LET after == MessageHandler(d, outcome, io)
    IN  [after EXCEPT !.queue = Tail(d.queue),
                      !.obs   = Observe(d, outcome, io, after)]

----------------------------------------------------------------------------
\* IpFreelyMotionDetector::DetectMotion on rectangles.
\*
\* The doubles of the camera configuration (motionAreaAveFactor,
\* minMotionAreaPercentFactor, the corners and sizes of motionRegions) are
\* counted in quarters, which doubles hold exactly, so that static_cast<int> of
\* a product is the integer division below.  shrinkVideoFrames is off:
\* m_motionFrameScalar is 1.0 and the motion frame has the original size.

FactorScale == 4

Min(a, b) == IF a <= b THEN a ELSE b

\* cv::Rect as {x, y, width, height}; cv::Rect(pt1, pt2) spans two corners.
Rect(x, y, width, height) == [x |-> x, y |-> y, width |-> width, height |-> height]
NullRect == Rect(0, 0, 0, 0)
RectOfPoints(p1, p2) ==
    Rect(Min(p1.x, p2.x), Min(p1.y, p2.y),
         Max(p1.x, p2.x) - Min(p1.x, p2.x), Max(p1.y, p2.y) - Min(p1.y, p2.y))
Area(r) == r.width * r.height
Tl(r) == [x |-> r.x, y |-> r.y]
Br(r) == [x |-> r.x + r.width, y |-> r.y + r.height]

\* QRect keeps its corners, both inside the rectangle; QRect(x, y, w, h).
QRect(x, y, w, h) == [x1 |-> x, y1 |-> y, x2 |-> x + w - 1, y2 |-> y + h - 1]
QRectIsNull(q) == q.x2 = q.x1 - 1 /\ q.y2 = q.y1 - 1

\* QRect::intersects
QRectIntersects(a, b) ==
    LET l1 == IF a.x2 - a.x1 + 1 < 0 THEN a.x2 ELSE a.x1
        r1 == IF a.x2 - a.x1 + 1 < 0 THEN a.x1 ELSE a.x2
        l2 == IF b.x2 - b.x1 + 1 < 0 THEN b.x2 ELSE b.x1
        r2 == IF b.x2 - b.x1 + 1 < 0 THEN b.x1 ELSE b.x2
        t1 == IF a.y2 - a.y1 + 1 < 0 THEN a.y2 ELSE a.y1
        b1 == IF a.y2 - a.y1 + 1 < 0 THEN a.y1 ELSE a.y2
        t2 == IF b.y2 - b.y1 + 1 < 0 THEN b.y2 ELSE b.y1
        b2 == IF b.y2 - b.y1 + 1 < 0 THEN b.y1 ELSE b.y2
    IN  /\ ~QRectIsNull(a)
        /\ ~QRectIsNull(b)
        /\ ~(l1 > r2 \/ l2 > r1)
        /\ ~(t1 > b2 \/ t2 > b1)

\* A region of interest: left, top, width and height as fractions of the frame.
Region(left, top, width, height) ==
    [left |-> left, top |-> top, width |-> width, height |-> height]

\* CreateQRectFromVideoFrameDims: setTop, setLeft, setRight, setBottom
CreateQRectFromVideoFrameDims(videoFrameWidth, videoFrameHeight, motionRegion) ==
    LET top  == (videoFrameHeight * motionRegion.top) \div FactorScale
        left == (videoFrameWidth * motionRegion.left) \div FactorScale
    IN  [x1 |-> left, y1 |-> top,
         x2 |-> left + (videoFrameWidth * motionRegion.width) \div FactorScale,
         y2 |-> top + (videoFrameHeight * motionRegion.height) \div FactorScale]

BOUNDING_RECT_MARGIN == 1

\* The detector's part in DetectMotion, as Initialise leaves it.  event: what
\* the last DetectMotion returned; path: the branch it took on the rectangle;
\* suppressed: the standard deviation of the frame it judged was not below the
\* maximum; decays: the frames on the decay path in a row, decayFrom: the height
\* of the rectangle before the first of them.
NewDetection(width, height, factor, fraction, regions) ==
    [m_originalWidth      |-> width,
     m_originalHeight     |-> height,
     motionAreaAveFactor  |-> factor,
     motionRegions        |-> regions,
     m_minImageChangeArea |-> (height * width * fraction) \div FactorScale,
     m_motionBoundingRect |-> NullRect,
     event                |-> FALSE,
     path                 |-> "none",
     suppressed           |-> FALSE,
     decays               |-> 0,
     decayFrom            |-> 0,
     frames               |-> 0]

\* No detector whose rectangle is followed is part of the behaviour.
NoDetection == NewDetection(0, 0, 0, 0, {})

\* The rectangle around the changed pixels of the motion frame, margins added:
\* maxBoundingRect and min_x, max_x, min_y, max_y after the loop over the
\* pixels, which the test on the standard deviation guards.  changes: the
\* extremes of the changed pixels the loop would find, << >> when none.
ChangedPixels_ignoresStdDev(s, frame) ==
    IF frame.changes # << >>
    THEN LET c == frame.changes[1]
             min_x == IF c.min_x - BOUNDING_RECT_MARGIN > 0
                      THEN c.min_x - BOUNDING_RECT_MARGIN ELSE c.min_x
             min_y == IF c.min_y - BOUNDING_RECT_MARGIN > 0
                      THEN c.min_y - BOUNDING_RECT_MARGIN ELSE c.min_y
             max_x == IF c.max_x + BOUNDING_RECT_MARGIN < s.m_originalWidth - 1
                      THEN c.max_x + BOUNDING_RECT_MARGIN ELSE c.max_x
             max_y == IF c.max_y + BOUNDING_RECT_MARGIN < s.m_originalHeight - 1
                      THEN c.max_y + BOUNDING_RECT_MARGIN ELSE c.max_y
         IN  [min_x |-> min_x, min_y |-> min_y, max_x |-> max_x, max_y |-> max_y,
              maxBoundingRect |-> RectOfPoints([x |-> min_x, y |-> min_y],
                                               [x |-> max_x, y |-> max_y])]
    ELSE [min_x |-> s.m_originalWidth, min_y |-> s.m_originalHeight,
          max_x |-> 0, max_y |-> 0, maxBoundingRect |-> NullRect]

ChangedPixels(s, frame) ==
    IF frame.stddevBelow /\ frame.changes # << >>
    THEN ChangedPixels_ignoresStdDev(s, frame)
    ELSE [min_x |-> s.m_originalWidth, min_y |-> s.m_originalHeight,
          max_x |-> 0, max_y |-> 0, maxBoundingRect |-> NullRect]

\* The rolling average of the old rectangle and the new one.
Smoothed(old, new, factor) ==
    LET l == (Tl(old).x * factor + Tl(new).x * (FactorScale - factor)) \div FactorScale
        t == (Tl(old).y * factor + Tl(new).y * (FactorScale - factor)) \div FactorScale
        r == (Br(old).x * factor + Br(new).x * (FactorScale - factor)) \div FactorScale
        b == (Br(old).y * factor + Br(new).y * (FactorScale - factor)) \div FactorScale
    IN  RectOfPoints([x |-> l, y |-> t], [x |-> r, y |-> b])

Decayed_keepsHeight(old, factor) ==
    Rect(old.x + old.width \div 2, old.y + old.height \div 2,
         (old.width * factor) \div FactorScale, old.height)

\* The rectangle shrunk towards its centre when there is no motion.
Decayed(old, factor) ==
    Rect(old.x + old.width \div 2, old.y + old.height \div 2,
         (old.width * factor) \div FactorScale, old.height \div 4)

CheckForIntersections_anyRegion(s) ==
    Area(s.m_motionBoundingRect) # 0

\* IpFreelyMotionDetector::CheckForIntersections
CheckForIntersections(s) ==
    IF Area(s.m_motionBoundingRect) = 0 THEN FALSE
    ELSE IF s.motionRegions = {} THEN TRUE
    ELSE LET mr == QRect(Tl(s.m_motionBoundingRect).x, Tl(s.m_motionBoundingRect).y,
                         s.m_motionBoundingRect.width, s.m_motionBoundingRect.height)
         IN  \E region \in s.motionRegions :
               QRectIntersects(mr, CreateQRectFromVideoFrameDims(
                                       s.m_originalWidth, s.m_originalHeight, region))

\* IpFreelyMotionDetector::DetectMotion from the thresholded motion frame on.
DetectMotion(s, frame) ==
    LET c == ChangedPixels(s, frame)
        moved == Area(c.maxBoundingRect) > s.m_minImageChangeArea
        minBoundingRect == RectOfPoints([x |-> c.min_x, y |-> c.min_y],
                                        [x |-> c.max_x, y |-> c.max_y])
        s1 == [s EXCEPT
                 !.m_motionBoundingRect =
                     IF moved THEN Smoothed(@, minBoundingRect, s.motionAreaAveFactor)
                     ELSE Decayed(@, s.motionAreaAveFactor),
                 !.path      = IF moved THEN "smooth" ELSE "decay",
                 !.suppressed = ~frame.stddevBelow,
                 !.decays    = IF moved THEN 0 ELSE @ + 1,
                 !.decayFrom = IF moved THEN 0
                               ELSE IF s.decays = 0 THEN s.m_motionBoundingRect.height
                               ELSE @,
                 !.frames    = @ + 1]
    IN  [s1 EXCEPT !.event = CheckForIntersections(s1)]

\* What MessageHandler sees of DetectMotion's result.
OutcomeOf(s) ==
    [motion |-> s.event,
     rect   |-> IF Area(s.m_motionBoundingRect) = 0 THEN "null" ELSE "nonzero"]

----------------------------------------------------------------------------
\* IpFreelyStreamProcessor.

\* cv::Mat types of grabbed frames: the three CvMatToQImage converts and one
\* (16-bit, 1 channel) it does not.
MatTypes == {"CV_8UC4", "CV_8UC3", "CV_8UC1", "CV_16UC1"}
UsualFormats == {"CV_8UC3"}

\* A QImage: of, the sequence number of the frame whose pixels it was made
\* from (0 for the null image); shares, whether it refers to the cv::Mat's
\* buffer instead of owning a copy.
NullImage == [of |-> 0, format |-> "Format_Invalid", shares |-> FALSE]

\* utils::CvMatToQImage(inMat, image) on frame number seq of the given type:
\* what it returns and what image holds afterwards.
CvMatToQImage(seq, type, image) ==
    CASE type = "CV_8UC4" ->
           [ok |-> TRUE, image |-> [of |-> seq, format |-> "Format_ARGB32", shares |-> TRUE]]
      [] type = "CV_8UC3" ->
           [ok |-> TRUE, image |-> [of |-> seq, format |-> "Format_RGB888", shares |-> FALSE]]
      [] type = "CV_8UC1" ->
           [ok |-> TRUE,
            image |-> [of |-> seq, format |-> "Format_Grayscale8", shares |-> TRUE]]
      [] OTHER -> [ok |-> FALSE, image |-> image]

\* What the image CurrentVideoFrame returns can show: nothing (the null
\* image), the frame grabbed last, an earlier frame, or, when the image refers
\* to a buffer the capture has since replaced, whatever that memory holds.
CurrentVideoFrame ==
    IF m_currentFrame.of = 0 THEN {"null"}
    ELSE IF m_currentFrame.of = m_videoFrame THEN {"current"}
    ELSE IF m_currentFrame.shares THEN {"earlier", "garbage"}
    ELSE {"earlier"}

StableCamera      == {2500}                 \* CAP_PROP_FPS never changes
\* <<cameraMaxFps, the rates CAP_PROP_FPS of the opened capture moves between>>
ChangingCameras   ==
    {<<2500, {1500, 2500}>>, <<2500, {2495, 2500}>>, <<2500, {50, 2500}>>,
     <<7000, {2500, 9000}>>}
RequiredDurations == {30}                   \* requiredFileDurationSecs (ms)

\* eMotionDetectorMode
MotionDetectorModes ==
    {"off", "lowSensitivity", "mediumSensitivity", "highSensitivity", "manual"}

\* The mode of the camera that records by the given schedule: off without a
\* recording schedule, medium sensitivity with one that is never on, manual
\* settings otherwise.
ModeWith(schedule) ==
    IF schedule = EmptySchedule THEN "off"
    ELSE IF schedule = AllFalseSchedule THEN "mediumSensitivity"
    ELSE "manual"

\* The configurations explored: every recording schedule with and without a
\* motion schedule on a camera whose frame rate is stable; manual recording
\* without a motion schedule on every camera whose frame rate changes, and
\* with one on the camera that moves between 15 and 25 fps.
Configurations ==
    {[rec |-> r, mot |-> m, pref |-> 2500, camera |-> StableCamera,
      formats |-> UsualFormats, mode |-> ModeWith(r)] :
        r \in Schedules, m \in {EmptySchedule, MixedSchedule}}
    \cup {[rec |-> EmptySchedule, mot |-> AllFalseSchedule, pref |-> 2500,
           camera |-> StableCamera, formats |-> UsualFormats, mode |-> "lowSensitivity"]}
    \cup {[rec |-> EmptySchedule, mot |-> EmptySchedule, pref |-> c[1],
           camera |-> c[2], formats |-> UsualFormats, mode |-> "highSensitivity"] :
             c \in ChangingCameras}
    \cup {[rec |-> EmptySchedule, mot |-> MixedSchedule, pref |-> 2500,
           camera |-> {1500, 2500}, formats |-> UsualFormats, mode |-> "manual"]}
    \cup {[rec |-> EmptySchedule, mot |-> EmptySchedule, pref |-> 2500,
           camera |-> StableCamera, formats |-> MatTypes, mode |-> "off"]}

\* A step of the pump or of the detector's worker, not a public call.
NoCall == [method |-> "none", returned |-> FALSE]
Called(method, value) == [method |-> method, returned |-> value]

\* reported: the rate the capture reported last (at construction or at a check).
\* The rest describes the check of the current tick: done (it has finished),
\* previous (the rate reported before it), original and recording
\* (m_originalFps and m_fps before it), and what it did.
NoFpsCheck ==
    [done |-> FALSE, reported |-> 0, previous |-> 0, original |-> 0, recording |-> 0,
     hadDetector |-> FALSE, newCapture |-> FALSE, newDetector |-> FALSE,
     newTimer |-> FALSE]

\* The state the constructor leaves, for a capture that opened and reports r0.
Init ==
    /\ \E cfg \in Configurations :
         /\ m_recordingSchedule = cfg.rec
         /\ m_motionSchedule = cfg.mot
         /\ cameraMaxFps = cfg.pref
         /\ motionDectorMode = cfg.mode
         /\ motionDectorMode \in MotionDetectorModes
         /\ camera = cfg.camera
         /\ frameFormats = cfg.formats
    /\ m_requiredFileDurationSecs \in RequiredDurations
    /\ m_useRecordingSchedule = VerifySchedule(m_recordingSchedule)
    /\ m_useMotionSchedule = VerifySchedule(m_motionSchedule)
    /\ \E r0 \in camera :
         /\ m_originalFps = r0
         /\ m_fps = ComputeFps(cameraMaxFps, r0).fps
         /\ fpsCheck = [NoFpsCheck EXCEPT !.reported = r0]
    /\ m_updatePeriodMillisecs = PeriodMillisecs(m_fps)
    /\ m_eventThread = m_updatePeriodMillisecs
    /\ m_videoCapture = TRUE
    /\ m_enableVideoWriting = FALSE
    /\ m_currentTime = <<3, 12>>
    /\ m_videoFrame = 0
    /\ videoFrameType = "CV_8UC1"
    /\ m_currentFrame = NullImage
    /\ m_videoWriter = NullWriter
    /\ m_fileDurationSecs = 0
    /\ m_motionRectangle = "null"
    /\ m_motionDetector = << >>
    /\ pc = "idle"
    /\ ticks = 0
    /\ lastCall = NoCall
    /\ usedEnable = << >>
    /\ lastFileIo = FALSE
    /\ retired = << >>
    /\ DiskSpaceManagerAbsent
    /\ caller = NoCaller
    /\ worker = << >>
    /\ detect = NoDetection
    /\ clock = NoClock
    /\ ConstructionOver

StartVideoWriting_unguarded ==
    /\ m_enableVideoWriting' = TRUE
    /\ lastCall' = Called("StartVideoWriting", FALSE)
    /\ UNCHANGED <<apartVars, cfgVars, fpsVars, recVars, m_currentTime, frameVars,
                   m_motionRectangle, m_motionDetector, pc, ticks, obsVars>>

StartVideoWriting ==
    /\ m_enableVideoWriting' = IF m_useRecordingSchedule THEN m_enableVideoWriting ELSE TRUE
    /\ lastCall' = Called("StartVideoWriting", FALSE)
    /\ UNCHANGED <<apartVars, cfgVars, fpsVars, recVars, m_currentTime, frameVars,
                   m_motionRectangle, m_motionDetector, pc, ticks, obsVars>>

StopVideoWriting ==
    /\ m_enableVideoWriting' = IF m_useRecordingSchedule THEN m_enableVideoWriting ELSE FALSE
    /\ lastCall' = Called("StopVideoWriting", FALSE)
    /\ UNCHANGED <<apartVars, cfgVars, fpsVars, recVars, m_currentTime, frameVars,
                   m_motionRectangle, m_motionDetector, pc, ticks, obsVars>>

VideoWritingEnabled_flagOnly(enable, detector) == enable

\* The value VideoWritingEnabled() returns
VideoWritingEnabled(enable, detector) ==
    IF ~enable /\ detector # << >> THEN WritingStream(detector[1]) ELSE enable

CallVideoWritingEnabled ==
    /\ lastCall' = Called("VideoWritingEnabled",
                          VideoWritingEnabled(m_enableVideoWriting, m_motionDetector))
    /\ UNCHANGED <<apartVars, procVars, obsVars>>

\* ThreadEventCallback up to its try block: m_currentTime = time(nullptr)
ThreadEventCallback ==
    /\ pc = "idle"
    /\ ticks < MaxTicks
    /\ \E t \in TimeSlots : m_currentTime' = t
    /\ ticks' = ticks + 1
    /\ pc' = "grab"
    /\ usedEnable' = << >>
    /\ lastFileIo' = lastFileIo
    /\ fpsCheck' = [NoFpsCheck EXCEPT !.reported = fpsCheck.reported]
    /\ lastCall' = NoCall
    /\ UNCHANGED <<apartVars, cfgVars, fpsVars, recVars, m_enableVideoWriting, frameVars,
                   m_motionRectangle, m_motionDetector, retired>>

GrabVideoFrame_keepsOldFrame ==
    /\ pc = "grab"
    /\ UNCHANGED frameVars
    /\ pc' = "sched"
    /\ lastCall' = NoCall
    /\ UNCHANGED <<apartVars, cfgVars, fpsVars, recVars, m_enableVideoWriting, m_currentTime,
                   m_motionRectangle, m_motionDetector, ticks, obsVars>>

GrabVideoFrame ==
    /\ pc = "grab"
    /\ m_videoFrame' = ticks
    /\ \E type \in frameFormats :
         /\ videoFrameType' = type
         /\ m_currentFrame' = CvMatToQImage(m_videoFrame', type, m_currentFrame).image
    /\ pc' = "sched"
    /\ lastCall' = NoCall
    /\ UNCHANGED <<apartVars, cfgVars, fpsVars, recVars, m_enableVideoWriting, m_currentTime,
                   m_motionRectangle, m_motionDetector, ticks, obsVars>>

CheckRecordingSchedule ==
    /\ pc = "sched"
    /\ IF m_recordingSchedule = << >>
       THEN UNCHANGED m_enableVideoWriting
       ELSE LET needToRecord == Cell(m_recordingSchedule, m_currentTime)
            IN  m_enableVideoWriting' =
                    IF m_enableVideoWriting
                    THEN (IF ~needToRecord THEN FALSE ELSE m_enableVideoWriting)
                    ELSE (IF needToRecord THEN TRUE ELSE m_enableVideoWriting)
    /\ pc' = "motion"
    /\ lastCall' = NoCall
    /\ UNCHANGED <<apartVars, cfgVars, fpsVars, recVars, m_currentTime, frameVars,
                   m_motionRectangle, m_motionDetector, ticks, obsVars>>

CheckMotionSchedule_ignoresTime ==
    IF ~m_useMotionSchedule \/ m_motionSchedule = << >>
    THEN FALSE
    ELSE TRUE

CheckMotionSchedule ==
    IF ~m_useMotionSchedule \/ m_motionSchedule = << >>
    THEN FALSE
    ELSE Cell(m_motionSchedule, m_currentTime)

\* The observer notes a frame handed to AddNextFrame, and the destructor starting.
NotePushed(d, frame) == [d EXCEPT !.obs.pushed = Append(@, frame)]
NoteDestroy(d) == [d EXCEPT !.obs.atDestroy = Len(d.queue)]

\* CheckMotionDetector.  When the schedule is inactive and a detector exists,
\* m_motionDetector.reset() runs the detector's destructor, which returns in
\* ResetInCheckMotionDetector.
CheckMotionDetector ==
    /\ pc = "motion"
    /\ IF ~CheckMotionSchedule
       THEN IF m_motionDetector = << >>
            THEN /\ m_motionRectangle' = "null"
                 /\ pc' = "create"
                 /\ UNCHANGED m_motionDetector
            ELSE /\ pc' = "md_reset"
                 /\ m_motionDetector' = <<NoteDestroy(m_motionDetector[1])>>
                 /\ UNCHANGED m_motionRectangle
       ELSE LET d0 == IF m_motionDetector = << >>          \* InitialiseMotionDetector
                      THEN NewDetector(m_fps, m_requiredFileDurationSecs)
                      ELSE m_motionDetector[1]
                d1 == AddNextFrame(NotePushed(d0, m_videoFrame), m_videoFrame)
            IN  /\ m_motionDetector' = <<d1>>
                /\ m_motionRectangle' = CurrentMotionRect(d1)
                /\ pc' = "create"
    /\ lastCall' = NoCall
    /\ UNCHANGED <<apartVars, cfgVars, fpsVars, recVars, m_enableVideoWriting, m_currentTime,
                   frameVars, ticks, obsVars>>

\* The rest of CheckMotionDetector's inactive branch, once the destructor returned.
ResetInCheckMotionDetector ==
    /\ pc = "md_reset"
    /\ DestructorMayReturn(m_motionDetector[1])
    /\ retired' = <<m_motionDetector[1].obs>>
    /\ m_motionDetector' = << >>
    /\ m_motionRectangle' = "null"
    /\ pc' = "create"
    /\ lastCall' = NoCall
    /\ UNCHANGED <<apartVars, cfgVars, fpsVars, recVars, m_enableVideoWriting, m_currentTime,
                   frameVars, ticks, usedEnable, lastFileIo, fpsCheck>>

\* The detector's worker thread handles the frame at the front of the queue.
HandleNextFrame ==
    /\ worker = << >>
    /\ m_motionDetector # << >>
    /\ m_motionDetector[1].queue # << >>
    /\ \E outcome \in FrameOutcomes, io \in IoOutcomes :
         m_motionDetector' = <<WorkerStep(m_motionDetector[1], outcome, io)>>
    /\ lastCall' = NoCall
    /\ UNCHANGED <<apartVars, cfgVars, fpsVars, recVars, m_enableVideoWriting, m_currentTime,
                   frameVars, m_motionRectangle, pc, ticks, obsVars>>

\* IpFreelyStreamProcessor::CreateCaptureObjects on the flag it read: the writer
\* and the file duration it leaves, and whether it opened a file.
SpCreateCaptureObjects_rotatesEveryFrame(enable, w, duration, required, io) ==
    IF enable
    THEN LET w1 == IF w.open THEN ReleaseWriter(w) ELSE w
         IN  IF io \in {"dirFail", "dirThrow"}
             THEN [w |-> w1, duration |-> 0, opened |-> FALSE, io |-> io]
             ELSE [w |-> MakeWriter(w1, io = "ok"), duration |-> 0,
                   opened |-> (io = "ok"), io |-> io]
    ELSE [w |-> IF w.open THEN ReleaseWriter(w) ELSE w, duration |-> duration,
          opened |-> FALSE, io |-> "none"]

SpCreateCaptureObjects_keepsUnopened(enable, w, duration, required, io) ==
    IF enable
    THEN IF w.open /\ duration < required
         THEN [w |-> w, duration |-> duration, opened |-> FALSE, io |-> "none"]
         ELSE LET w1 == IF w.open THEN ReleaseWriter(w) ELSE w
              IN  IF io \in {"dirFail", "dirThrow"}
                  THEN [w |-> w1, duration |-> 0, opened |-> FALSE, io |-> io]
                  ELSE [w |-> MakeWriter(w1, TRUE), duration |-> 0,
                        opened |-> (io = "ok"), io |-> io]
    ELSE [w |-> IF w.open THEN ReleaseWriter(w) ELSE w, duration |-> duration,
          opened |-> FALSE, io |-> "none"]

\* What the file system does to CreateCaptureObjects: dirFail when
\* create_directories returned false, dirThrow when it threw.
CaptureIoOutcomes == IoOutcomes \cup {"dirThrow"}
Failed(io) == io \in {"dirFail", "dirThrow", "openFail"}

\* io of the result: "none" when the function did not get as far as the
\* directory, else the outcome of the attempt.
SpCreateCaptureObjects(enable, w, duration, required, io) ==
    IF enable
    THEN IF w.open /\ duration < required
         THEN [w |-> w, duration |-> duration, opened |-> FALSE, io |-> "none"]
         ELSE LET w1 == IF w.open THEN ReleaseWriter(w) ELSE w
              IN  IF io \in {"dirFail", "dirThrow"}
                  THEN [w |-> w1, duration |-> 0, opened |-> FALSE, io |-> io]
                  ELSE [w |-> MakeWriter(w1, io = "ok"), duration |-> 0,
                        opened |-> (io = "ok"), io |-> io]
    ELSE [w |-> IF w.open THEN ReleaseWriter(w) ELSE w, duration |-> duration,
          opened |-> FALSE, io |-> "none"]

CreateCaptureObjects ==
    /\ pc = "create"
    /\ \E io \in CaptureIoOutcomes :
         LET r == SpCreateCaptureObjects(m_enableVideoWriting, m_videoWriter,
                                         m_fileDurationSecs, m_requiredFileDurationSecs, io)
         IN  /\ m_videoWriter' = r.w
             /\ m_fileDurationSecs' = r.duration
             /\ usedEnable' = <<[enable |-> m_enableVideoWriting, at |-> m_currentTime,
                                 opened |-> r.opened, failed |-> Failed(r.io),
                                 after |-> lastFileIo]>>
             /\ lastFileIo' = Failed(r.io)
             \* an exception ends the tick in the callback's catch block
             /\ pc' = IF r.io = "dirThrow" THEN "idle" ELSE "write"
    /\ lastCall' = NoCall
    /\ UNCHANGED <<apartVars, cfgVars, fpsVars, m_enableVideoWriting, m_currentTime, frameVars,
                   m_motionRectangle, m_motionDetector, ticks, fpsCheck, retired>>

WriteVideoFrame ==
    /\ pc = "write"
    /\ m_fileDurationSecs' = IF m_videoWriter.open
                             THEN m_fileDurationSecs + m_updatePeriodMillisecs
                             ELSE m_fileDurationSecs
    /\ pc' = "fps"
    /\ lastCall' = NoCall
    /\ UNCHANGED <<apartVars, cfgVars, fpsVars, m_videoWriter, m_enableVideoWriting, m_currentTime,
                   frameVars, m_motionRectangle, m_motionDetector, ticks, obsVars>>

EventThreadStops_joinsItsCallback(fromCallback) == ~fromCallback

\* core_lib::threads::EventThread, destroyed by m_eventThread.reset(): whether
\* the destructor returns.  fromCallback: it runs on the event thread itself,
\* inside the callback.  No operation of this core blocks indefinitely.
EventThreadStops(fromCallback) == TRUE

\* CheckFps.  reported: m_videoCapture->get(CAP_PROP_FPS), 0 from a capture that
\* is not opened; captureOpens: whether the capture CreateVideoCapture makes
\* opens (it throws if not, and the callback's catch ends the tick).  When a
\* detector exists, m_motionDetector.reset() runs its destructor, which returns
\* in ResetInCheckFps.
CheckFps ==
    /\ pc = "fps"
    /\ \E reported \in (IF m_videoCapture THEN camera ELSE {0}),
          captureOpens \in BOOLEAN :
         LET c    == ComputeFps(m_fps, reported)
             seen == [NoFpsCheck EXCEPT !.reported = reported,
                                        !.previous = fpsCheck.reported,
                                        !.original = m_originalFps,
                                        !.recording = m_fps,
                                        !.hadDetector = m_motionDetector # << >>]
         IN  IF ~FpsDrifted(reported, m_originalFps)
             THEN /\ fpsCheck' = [seen EXCEPT !.done = TRUE]
                  /\ pc' = "idle"
                  /\ UNCHANGED <<fpsVars, m_videoWriter, m_motionDetector>>
             ELSE /\ m_originalFps' = reported
                  /\ m_fps' = c.fps
                  /\ IF ~c.changed
                     THEN /\ fpsCheck' = [seen EXCEPT !.done = TRUE]
                          /\ pc' = "idle"
                          /\ UNCHANGED <<m_updatePeriodMillisecs, m_videoCapture,
                                         m_eventThread, m_videoWriter, m_motionDetector>>
                     ELSE /\ m_updatePeriodMillisecs' = PeriodMillisecs(c.fps)
                          /\ m_videoCapture' = captureOpens
                          /\ IF ~captureOpens
                             THEN /\ fpsCheck' = [seen EXCEPT !.done = TRUE]
                                  /\ pc' = "idle"
                                  /\ UNCHANGED <<m_eventThread, m_videoWriter,
                                                 m_motionDetector>>
                             ELSE /\ m_videoWriter' = IF m_videoWriter.open
                                                      THEN ReleaseWriter(m_videoWriter)
                                                      ELSE m_videoWriter
                                  /\ IF m_motionDetector = << >>
                                     THEN /\ EventThreadStops(TRUE)
                                          /\ m_eventThread' = PeriodMillisecs(c.fps)
                                          /\ fpsCheck' = [seen EXCEPT !.done = TRUE,
                                                                      !.newCapture = TRUE,
                                                                      !.newTimer = TRUE]
                                          /\ pc' = "idle"
                                          /\ UNCHANGED m_motionDetector
                                     ELSE /\ fpsCheck' = [seen EXCEPT !.newCapture = TRUE]
                                          /\ m_motionDetector' =
                                               <<NoteDestroy(m_motionDetector[1])>>
                                          /\ pc' = "fps_reset"
                                          /\ UNCHANGED m_eventThread
    /\ lastCall' = NoCall
    /\ UNCHANGED <<apartVars, cfgVars, m_fileDurationSecs, m_enableVideoWriting, m_currentTime,
                   frameVars, m_motionRectangle, ticks, usedEnable, lastFileIo, retired>>

\* The rest of CheckFps once the old detector's destructor returned: the new
\* detector and the new event thread.
ResetInCheckFps ==
    /\ pc = "fps_reset"
    /\ DestructorMayReturn(m_motionDetector[1])
    /\ retired' = <<m_motionDetector[1].obs>>
    /\ m_motionRectangle' = "null"
    /\ m_motionDetector' = <<NewDetector(m_fps, m_requiredFileDurationSecs)>>
    /\ EventThreadStops(TRUE)
    /\ m_eventThread' = m_updatePeriodMillisecs
    /\ fpsCheck' = [fpsCheck EXCEPT !.done = TRUE, !.newDetector = TRUE, !.newTimer = TRUE]
    /\ pc' = "idle"
    /\ lastCall' = NoCall
    /\ UNCHANGED <<apartVars, cfgVars, m_originalFps, m_fps, m_updatePeriodMillisecs, m_videoCapture,
                   recVars, m_enableVideoWriting, m_currentTime, frameVars, ticks,
                   usedEnable, lastFileIo>>

Next ==
    \/ StartVideoWriting
    \/ StopVideoWriting
    \/ CallVideoWritingEnabled
    \/ ThreadEventCallback
    \/ GrabVideoFrame
    \/ CheckRecordingSchedule
    \/ CheckMotionDetector
    \/ ResetInCheckMotionDetector
    \/ HandleNextFrame
    \/ CreateCaptureObjects
    \/ WriteVideoFrame
    \/ CheckFps
    \/ ResetInCheckFps

Spec == Init /\ [][Next]_vars

\* The pump of a camera that reported 25 fps when it was opened and moves
\* between 15 and 25 fps, left to itself (no public call is made): the event
\* thread fires and runs the callback to its end, and the detector's worker
\* handles what is queued.
InitRenegotiating == Init /\ camera = {1500, 2500} /\ m_originalFps = 2500

CallbackStep ==
    \/ GrabVideoFrame
    \/ CheckRecordingSchedule
    \/ CheckMotionDetector
    \/ ResetInCheckMotionDetector
    \/ CreateCaptureObjects
    \/ WriteVideoFrame
    \/ CheckFps
    \/ ResetInCheckFps

NextRenegotiating == ThreadEventCallback \/ CallbackStep \/ HandleNextFrame

SpecRenegotiating ==
    /\ InitRenegotiating
    /\ [][NextRenegotiating]_vars
    /\ WF_vars(ThreadEventCallback)
    /\ WF_vars(CallbackStep)
    /\ WF_vars(HandleNextFrame)

\* VideoWritingEnabled() step by step.  First GetEnableVideoWriting(), under
\* m_writingMutex, and the test of m_motionDetector, under no mutex: the call
\* returns, or goes on to m_motionDetector->WritingStream().
VideoWritingEnabledTests ==
    /\ caller.at = "none"
    /\ IF ~m_enableVideoWriting /\ m_motionDetector # << >>
       THEN /\ caller' = [at |-> "deref", holds |-> {}]
            /\ lastCall' = NoCall
       ELSE /\ lastCall' = Called("VideoWritingEnabled", m_enableVideoWriting)
            /\ UNCHANGED caller
    /\ UNCHANGED <<diskVars, ctorVars, detect, openIn, clock, worker, procVars, obsVars>>

\* Whether the pump thread has destroyed m_motionDetector's detector, or is
\* within its destructor.
DetectorGoing == m_motionDetector = << >> \/ pc \in {"md_reset", "fps_reset"}

\* Then m_motionDetector->WritingStream(): the pointer is read again; when the
\* pump has reset it or is destroying the detector, the behaviour is undefined
\* and the call returns anything.
VideoWritingEnabledDereferences ==
    /\ caller.at = "deref"
    /\ caller' = NoCaller
    /\ \E undefined \in BOOLEAN :
         lastCall' = Called("VideoWritingEnabled",
                            IF DetectorGoing THEN undefined
                            ELSE WritingStream(m_motionDetector[1]))
    /\ UNCHANGED <<diskVars, ctorVars, detect, openIn, clock, worker, procVars, obsVars>>

\* Whether MessageHandler, on this frame, closes the open file for a new one.
RotatesFile(d, outcome) == d.m_videoWriter.open /\ StartsFile(d, outcome)

\* MessageHandler step by step on a frame that makes CreateCaptureObjects
\* rotate the file: up to m_videoWriter.release() and SetWritingStream(false).
HandlerClosesFile ==
    /\ worker = << >>
    /\ m_motionDetector # << >>
    /\ m_motionDetector[1].queue # << >>
    /\ \E outcome \in FrameOutcomes, io \in IoOutcomes :
         /\ RotatesFile(m_motionDetector[1], outcome)
         /\ worker' = <<[d |-> m_motionDetector[1], outcome |-> outcome, io |-> io]>>
         /\ m_motionDetector' =
                <<[m_motionDetector[1] EXCEPT !.m_motionBoundingRect = outcome.rect,
                                              !.m_videoWriter = ReleaseWriter(@),
                                              !.m_writingStream = FALSE]>>
    /\ lastCall' = NoCall
    /\ UNCHANGED <<diskVars, ctorVars, detect, openIn, clock, caller, cfgVars, fpsVars, recVars, m_enableVideoWriting,
                   m_currentTime, frameVars, m_motionRectangle, pc, ticks, obsVars>>

\* The rest of that MessageHandler: the new writer, SetWritingStream(true) if
\* it opened, WriteVideoFrame, and the frame leaves the queue.  Frames pushed
\* and a destructor started in the meantime stay as they are.
HandlerOpensFile ==
    /\ worker # << >>
    /\ LET now  == m_motionDetector[1]
           done == WorkerStep(worker[1].d, worker[1].outcome, worker[1].io)
       IN  m_motionDetector' =
              <<[done EXCEPT !.queue = Tail(now.queue),
                             !.obs.pushed = now.obs.pushed,
                             !.obs.atDestroy = now.obs.atDestroy]>>
    /\ worker' = << >>
    /\ lastCall' = NoCall
    /\ UNCHANGED <<diskVars, ctorVars, detect, openIn, clock, caller, cfgVars, fpsVars, recVars, m_enableVideoWriting,
                   m_currentTime, frameVars, m_motionRectangle, pc, ticks, obsVars>>

\* The pump, its detector's worker and a display thread that polls
\* VideoWritingEnabled().
NextCalls ==
    \/ VideoWritingEnabledTests
    \/ VideoWritingEnabledDereferences
    \/ HandlerClosesFile
    \/ HandlerOpensFile
    \/ ThreadEventCallback
    \/ GrabVideoFrame
    \/ CheckRecordingSchedule
    \/ CheckMotionDetector
    \/ ResetInCheckMotionDetector
    \/ HandleNextFrame
    \/ CreateCaptureObjects
    \/ WriteVideoFrame
    \/ CheckFps
    \/ ResetInCheckFps

SpecCalls == Init /\ [][NextCalls]_vars

----------------------------------------------------------------------------
\* A motion detector on its own: an owner constructs it, hands it frames with
\* AddNextFrame and at some point destroys it, as the stream processor does.

DetectorFps       == {100, 105}         \* fps handed to the constructor
DetectorDurations == {3000, 15000}      \* requiredFileDurationSecs (ms)

DetectorAlone ==
    /\ m_recordingSchedule = EmptySchedule
    /\ m_motionSchedule = EmptySchedule
    /\ m_useRecordingSchedule = FALSE
    /\ m_useMotionSchedule = FALSE
    /\ m_fps \in DetectorFps
    /\ m_requiredFileDurationSecs \in DetectorDurations
    /\ cameraMaxFps = m_fps
    /\ motionDectorMode = "manual"
    /\ camera = {m_fps}
    /\ frameFormats = UsualFormats
    /\ m_originalFps = m_fps
    /\ fpsCheck = [NoFpsCheck EXCEPT !.reported = m_fps]
    /\ m_updatePeriodMillisecs = PeriodMillisecs(m_fps)
    /\ m_eventThread = m_updatePeriodMillisecs
    /\ m_videoCapture = TRUE
    /\ m_enableVideoWriting = FALSE
    /\ m_currentTime = <<3, 12>>
    /\ m_videoFrame = 0
    /\ videoFrameType = "CV_8UC1"
    /\ m_currentFrame = NullImage
    /\ m_videoWriter = NullWriter
    /\ m_fileDurationSecs = 0
    /\ m_motionRectangle = "null"
    /\ m_motionDetector = <<NewDetector(m_fps, m_requiredFileDurationSecs)>>
    /\ ticks = 0
    /\ lastCall = NoCall
    /\ usedEnable = << >>
    /\ lastFileIo = FALSE
    /\ retired = << >>
    /\ DiskSpaceManagerAbsent
    /\ caller = NoCaller
    /\ worker = << >>
    /\ ConstructionOver

InitDetector ==
    /\ DetectorAlone
    /\ pc = "det"
    /\ detect = NoDetection
    /\ clock = NoClock

\* The owner hands the detector the next frame.
OwnerAddsFrame ==
    /\ pc = "det"
    /\ m_videoFrame < MaxFrames
    /\ Len(m_motionDetector[1].queue) < MaxQueue
    /\ m_videoFrame' = m_videoFrame + 1
    /\ UNCHANGED <<videoFrameType, m_currentFrame>>
    /\ m_motionDetector' =
           <<AddNextFrame(NotePushed(m_motionDetector[1], m_videoFrame'), m_videoFrame')>>
    /\ UNCHANGED <<apartVars, cfgVars, fpsVars, recVars, m_enableVideoWriting, m_currentTime,
                   m_motionRectangle, pc, ticks, uiVars, obsVars>>

\* The owner lets go of the detector: its destructor starts.
OwnerDestroys ==
    /\ pc = "det"
    /\ pc' = "det_reset"
    /\ m_motionDetector' = <<NoteDestroy(m_motionDetector[1])>>
    /\ UNCHANGED <<apartVars, cfgVars, fpsVars, recVars, m_enableVideoWriting, m_currentTime,
                   frameVars, m_motionRectangle, ticks, uiVars, obsVars>>

\* The destructor returns.
DestructorReturns ==
    /\ pc = "det_reset"
    /\ DestructorMayReturn(m_motionDetector[1])
    /\ retired' = <<m_motionDetector[1].obs>>
    /\ m_motionDetector' = << >>
    /\ pc' = "det_done"
    /\ UNCHANGED <<apartVars, cfgVars, fpsVars, recVars, m_enableVideoWriting, m_currentTime,
                   frameVars, m_motionRectangle, ticks, uiVars, usedEnable, lastFileIo, fpsCheck>>

NextDetector ==
    \/ OwnerAddsFrame
    \/ HandleNextFrame
    \/ OwnerDestroys
    \/ DestructorReturns

SpecDetector == InitDetector /\ [][NextDetector]_vars

----------------------------------------------------------------------------
\* A detector on its own whose rectangle is followed: every frame handed to it
\* is handled before the next, DetectMotion working on the rectangle, and the
\* file system lets every file start.

MaxDetections == 4      \* frames handed to the detector
FrameWidth    == 6      \* m_originalWidth
FrameHeight   == 8      \* m_originalHeight

\* motionAreaAveFactor and minMotionAreaPercentFactor of the configuration
AveFactors   == 0..FactorScale
AreaFactors  == {0, 1}

\* motionRegions: none, one region, or two
CentreRegion == Region(2, 2, 1, 1)
CornerRegion == Region(0, 0, 1, 1)
RegionSets   == {{}, {CentreRegion}, {CentreRegion, CornerRegion}}

\* The columns and rows the loop over the pixels visits.
VisitedColumns == {i \in 0..(FrameWidth - 1)  : i % 2 = 0}
VisitedRows    == {j \in 0..(FrameHeight - 1) : j % 2 = 0}

\* What a frame shows DetectMotion: whether the standard deviation is below
\* maxMotionStdDev, and the extremes of the changed pixels.  Of the frames with
\* a standard deviation that is not below, those without a change and those
\* with changes all over.
ChangedExtremes ==
    {b \in [min_x : VisitedColumns, max_x : VisitedColumns,
            min_y : VisitedRows, max_y : VisitedRows] :
       b.min_x <= b.max_x /\ b.min_y <= b.max_y}
ChangesAllOver ==
    {b \in ChangedExtremes :
       \A c \in ChangedExtremes : /\ b.min_x <= c.min_x /\ b.max_x >= c.max_x
                                  /\ b.min_y <= c.min_y /\ b.max_y >= c.max_y}
MotionFrames ==
    [stddevBelow : {TRUE}, changes : {<< >>} \cup {<<c>> : c \in ChangedExtremes}]
      \cup [stddevBelow : {FALSE}, changes : {<< >>} \cup {<<c>> : c \in ChangesAllOver}]

InitMotion ==
    /\ DetectorAlone
    /\ pc = "detect"
    /\ \E factor \in AveFactors, fraction \in AreaFactors, regions \in RegionSets :
         detect = NewDetection(FrameWidth, FrameHeight, factor, fraction, regions)
    /\ clock = NoClock

\* The owner hands the detector a frame and its worker handles it.
DetectFrame ==
    /\ pc = "detect"
    /\ detect.frames < MaxDetections
    /\ \E frame \in MotionFrames :
         /\ detect' = DetectMotion(detect, frame)
         /\ m_videoFrame' = m_videoFrame + 1
         /\ m_motionDetector' =
              <<WorkerStep(AddNextFrame(NotePushed(m_motionDetector[1], m_videoFrame'),
                                        m_videoFrame'),
                           OutcomeOf(detect'), "ok")>>
    /\ UNCHANGED <<videoFrameType, m_currentFrame>>
    /\ UNCHANGED <<diskVars, ctorVars, callVars, openIn, clock, cfgVars, fpsVars, recVars,
                   m_enableVideoWriting, m_currentTime, m_motionRectangle, pc, ticks,
                   uiVars, obsVars>>

NextMotion == DetectFrame

SpecMotion == InitMotion /\ [][NextMotion]_vars

\* The same detector on a frame wide enough for the rectangle to travel, with
\* no motion region and no minimum area: of each frame the changed pixels
\* reach from the first visited row to the last, between any two visited
\* columns, or there is no change.
MaxSweeps       == 8    \* frames handed to the detector
WideFrameWidth  == 23   \* m_originalWidth
WideFrameHeight == 4    \* m_originalHeight

WideColumns == {i \in 0..(WideFrameWidth - 1) : i % 2 = 0}
WideFrames ==
    [stddevBelow : {TRUE},
     changes : {<< >>} \cup
               {<<[min_x |-> p[1], max_x |-> p[2],
                   min_y |-> 0, max_y |-> WideFrameHeight - 2]>> :
                  p \in {q \in WideColumns \X WideColumns : q[1] <= q[2]}}]

InitWide ==
    /\ DetectorAlone
    /\ pc = "detect"
    /\ \E factor \in AveFactors :
         detect = NewDetection(WideFrameWidth, WideFrameHeight, factor, 0, {})
    /\ clock = NoClock

DetectWideFrame ==
    /\ pc = "detect"
    /\ detect.frames < MaxSweeps
    /\ \E frame \in WideFrames :
         /\ detect' = DetectMotion(detect, frame)
         /\ m_videoFrame' = m_videoFrame + 1
         /\ m_motionDetector' =
              <<WorkerStep(AddNextFrame(NotePushed(m_motionDetector[1], m_videoFrame'),
                                        m_videoFrame'),
                           OutcomeOf(detect'), "ok")>>
    /\ UNCHANGED <<videoFrameType, m_currentFrame>>
    /\ UNCHANGED <<diskVars, ctorVars, callVars, openIn, clock, cfgVars, fpsVars, recVars,
                   m_enableVideoWriting, m_currentTime, m_motionRectangle, pc, ticks,
                   uiVars, obsVars>>

NextWide == DetectWideFrame

SpecWide == InitWide /\ [][NextWide]_vars

\* Both: a stream processor with its pump, or a detector on its own.
\* A detector on its own has no stream processor whose methods could be called.
InitAll == Init \/ InitDetector
Pumping == pc \notin {"det", "det_reset", "det_done"}
NextAll == (Pumping /\ Next) \/ NextDetector
SpecAll == InitAll /\ [][NextAll]_vars

\* ---------------------------------------------------------------------------
\* The names of the output files: a stream processor recording by hand and its
\* motion detector, every frame handled before the next tick, and the paths at
\* which they open files.  m_currentTime, a time_t, is the clock's seconds.

MaxStamps == 4      \* ticks of the pump

NamesFps      == {1250, 2500}       \* the rates the camera reports
NamesDuration == 60000              \* a file of one minute

\* time(nullptr)
Stamp(ms) == ms \div 1000

\* <m_name>_<m_currentTime>.avi and <m_name>_motion_<m_currentTime>.avi in the
\* directory of that time's date
PathOf(who, ms, made) == <<who, Stamp(ms)>>

\* The clock's record once recorder `who` opened a file at time ms.
Opened(c, who, ms) ==
    LET path == PathOf(who, ms, c.made)
    IN  [c EXCEPT !.made = @ \cup {path},
                  !.again = IF path \in c.made THEN @ \cup {path} ELSE @]

InitNames ==
    /\ m_recordingSchedule = EmptySchedule
    /\ m_motionSchedule = EmptySchedule
    /\ m_useRecordingSchedule = FALSE
    /\ m_useMotionSchedule = FALSE
    /\ cameraMaxFps = 2500
    /\ motionDectorMode = "manual"
    /\ camera = NamesFps
    /\ frameFormats = UsualFormats
    /\ m_requiredFileDurationSecs = NamesDuration
    /\ m_originalFps = 2500
    /\ m_fps = 2500
    /\ fpsCheck = [NoFpsCheck EXCEPT !.reported = m_fps]
    /\ m_updatePeriodMillisecs = PeriodMillisecs(m_fps)
    /\ m_eventThread = m_updatePeriodMillisecs
    /\ m_videoCapture = TRUE
    /\ m_enableVideoWriting = FALSE
    /\ m_currentTime = <<3, 12>>
    /\ m_videoFrame = 0
    /\ videoFrameType = "CV_8UC1"
    /\ m_currentFrame = NullImage
    /\ m_videoWriter = NullWriter
    /\ m_fileDurationSecs = 0
    /\ m_motionRectangle = "null"
    /\ m_motionDetector = <<NewDetector(m_fps, m_requiredFileDurationSecs)>>
    /\ pc = "names"
    /\ ticks = 0
    /\ lastCall = NoCall
    /\ usedEnable = << >>
    /\ lastFileIo = FALSE
    /\ retired = << >>
    /\ DiskSpaceManagerAbsent
    /\ caller = NoCaller
    /\ worker = << >>
    /\ detect = NoDetection
    /\ ConstructionOver
    /\ clock \in {[NoClock EXCEPT !.ms = ms] : ms \in {0, 900}}

\* A tick of the pump, one timer period after the last: CreateCaptureObjects
\* names the file it opens after the tick's time, WriteVideoFrame, and CheckFps,
\* which on a changed recording rate closes the file and makes the capture,
\* the detector and the timer anew.
NamesTick ==
    /\ pc = "names"
    /\ ticks < MaxStamps
    /\ m_videoFrame = ticks
    /\ ticks' = ticks + 1
    /\ \E io \in IoOutcomes, reported \in camera :
         LET now == clock.ms + m_eventThread
             r   == SpCreateCaptureObjects(m_enableVideoWriting, m_videoWriter,
                                           m_fileDurationSecs, m_requiredFileDurationSecs, io)
             c   == ComputeFps(m_fps, reported)
             drifted == FpsDrifted(reported, m_originalFps)
             renew   == drifted /\ c.changed
         IN  /\ clock' = [(IF r.opened THEN Opened(clock, "processor", now) ELSE clock)
                            EXCEPT !.ms = now]
             /\ m_fileDurationSecs' = IF r.w.open THEN r.duration + m_updatePeriodMillisecs
                                      ELSE r.duration
             /\ m_originalFps' = IF drifted THEN reported ELSE m_originalFps
             /\ m_fps' = IF drifted THEN c.fps ELSE m_fps
             /\ m_updatePeriodMillisecs' = IF renew THEN PeriodMillisecs(c.fps)
                                           ELSE m_updatePeriodMillisecs
             /\ renew => EventThreadStops(TRUE)
             /\ m_eventThread' = m_updatePeriodMillisecs'
             /\ m_videoWriter' = IF renew /\ r.w.open THEN ReleaseWriter(r.w) ELSE r.w
             /\ m_motionDetector' = IF renew
                                    THEN <<NewDetector(c.fps, m_requiredFileDurationSecs)>>
                                    ELSE m_motionDetector
    /\ UNCHANGED <<diskVars, ctorVars, callVars, detect, openIn, cfgVars, m_videoCapture,
                   m_enableVideoWriting, m_currentTime, frameVars, m_motionRectangle,
                   pc, uiVars, obsVars>>

\* The detector's worker handles the frame of the tick; CreateCaptureObjects
\* names the file it opens after the time the worker read.
NamesDetectorFrame ==
    /\ pc = "names"
    /\ m_videoFrame < ticks
    /\ m_videoFrame' = m_videoFrame + 1
    /\ \E outcome \in FrameOutcomes, io \in IoOutcomes :
         LET d == m_motionDetector[1]
         IN  /\ m_motionDetector' =
                  <<WorkerStep(AddNextFrame(NotePushed(d, m_videoFrame'), m_videoFrame'),
                               outcome, io)>>
             /\ clock' = IF StartsFile(d, outcome) /\ io = "ok"
                         THEN Opened(clock, "detector", clock.ms)
                         ELSE clock
    /\ UNCHANGED <<videoFrameType, m_currentFrame>>
    /\ UNCHANGED <<diskVars, ctorVars, callVars, detect, openIn, cfgVars, fpsVars, recVars,
                   m_enableVideoWriting, m_currentTime, m_motionRectangle, pc, ticks,
                   uiVars, obsVars>>

\* StartVideoWriting() and StopVideoWriting() of the user, between two ticks.
NamesStartStop ==
    /\ pc = "names"
    /\ m_enableVideoWriting' = ~m_enableVideoWriting
    /\ UNCHANGED <<apartVars, cfgVars, fpsVars, recVars, m_currentTime, frameVars,
                   m_motionRectangle, m_motionDetector, pc, ticks, uiVars, obsVars>>

NextNames ==
    \/ NamesTick
    \/ NamesDetectorFrame
    \/ NamesStartStop

SpecNames == InitNames /\ [][NextNames]_vars

\* ---------------------------------------------------------------------------
\* The disk space manager (IpFreelyDiskSpaceManager) on its own.  Directory
\* names are numbers whose order is the lexicographic order of the names.

MaxDirs == 4        \* sub-directories the save folder can have

UPDATE_PERIOD_MS == 60000

DirNames        == 1..MaxDirs
RetentionLimits == {-1, 0, 1, 2}            \* maxNumDaysToStore
PercentLimits   == {90}                     \* maxPercentUsedSpace
UsageReadings   == {90, 91}                 \* percentUsed computed from QStorageInfo
\* bfs::remove_all on an existing directory: it removed something, it returned
\* 0 (the directory was gone by then), or it threw filesystem_error.
RemoveOutcomes  == {"removed", "vanished", "threw"}

Ascending(dirs)  == SortSeq(dirs, LAMBDA a, b : a < b)
Descending(dirs) == SortSeq(dirs, LAMBDA a, b : a > b)
SetToSeq(S) == CHOOSE q \in [1..Cardinality(S) -> S] : \A x \in S : \E i \in DOMAIN q : q[i] = x
\* core_lib::file_utils::ListSubDirectories returns the names in directory order
ListSubDirectories(files) == {Ascending(SetToSeq(files)), Descending(SetToSeq(files))}

\* m_subDirs.size() > static_cast<size_t>(m_maxNumDaysToStore): a negative
\* limit becomes a size_t no list is longer than.
TooManyDays_orEqual(subDirs, maxNumDaysToStore) ==
    maxNumDaysToStore >= 0 /\ Len(subDirs) >= maxNumDaysToStore

TooManyDays(subDirs, maxNumDaysToStore) ==
    maxNumDaysToStore >= 0 /\ Len(subDirs) > maxNumDaysToStore

DeleteOldestRecording_noLastGuard(subDirs, files, outcome) ==
    IF Len(subDirs) < 1
    THEN [returned |-> FALSE, threw |-> FALSE, subDirs |-> subDirs, files |-> files,
          attempt |-> << >>, errors |-> 0]
    ELSE LET sorted == Ascending(subDirs)
             oldest == Head(sorted)
         IN  IF oldest \notin files
             THEN [returned |-> TRUE, threw |-> FALSE, subDirs |-> Tail(sorted),
                   files |-> files, attempt |-> << >>, errors |-> 0]
             ELSE IF outcome = "threw"
             THEN [returned |-> FALSE, threw |-> TRUE, subDirs |-> sorted,
                   files |-> files,
                   attempt |-> <<[dir |-> oldest, outcome |-> outcome]>>, errors |-> 0]
             ELSE [returned |-> TRUE, threw |-> FALSE, subDirs |-> Tail(sorted),
                   files |-> files \ {oldest},
                   attempt |-> <<[dir |-> oldest, outcome |-> outcome]>>,
                   errors |-> IF outcome = "vanished" THEN 1 ELSE 0]

DeleteOldestRecording_keepsFailed(subDirs, files, outcome) ==
    IF Len(subDirs) <= 1
    THEN [returned |-> FALSE, threw |-> FALSE, subDirs |-> subDirs, files |-> files,
          attempt |-> << >>, errors |-> 0]
    ELSE LET sorted == Ascending(subDirs)
             oldest == Head(sorted)
         IN  IF oldest \notin files
             THEN [returned |-> TRUE, threw |-> FALSE, subDirs |-> Tail(sorted),
                   files |-> files, attempt |-> << >>, errors |-> 0]
             ELSE IF outcome = "threw"
             THEN [returned |-> TRUE, threw |-> FALSE, subDirs |-> sorted,
                   files |-> files,
                   attempt |-> <<[dir |-> oldest, outcome |-> outcome]>>, errors |-> 1]
             ELSE [returned |-> TRUE, threw |-> FALSE, subDirs |-> Tail(sorted),
                   files |-> files \ {oldest},
                   attempt |-> <<[dir |-> oldest, outcome |-> outcome]>>,
                   errors |-> IF outcome = "vanished" THEN 1 ELSE 0]

\* DeleteOldestRecording on the list subDirs with the directories in files on
\* disk: what it returned or whether an exception left it, the list and the
\* disk afterwards, the deletion it attempted and the errors it logged.
DeleteOldestRecording(subDirs, files, outcome) ==
    IF Len(subDirs) <= 1
    THEN [returned |-> FALSE, threw |-> FALSE, subDirs |-> subDirs, files |-> files,
          attempt |-> << >>, errors |-> 0]
    ELSE LET sorted == Ascending(subDirs)
             oldest == Head(sorted)
         IN  IF oldest \notin files
             THEN [returned |-> TRUE, threw |-> FALSE, subDirs |-> Tail(sorted),
                   files |-> files, attempt |-> << >>, errors |-> 0]
             ELSE IF outcome = "threw"
             THEN [returned |-> FALSE, threw |-> TRUE, subDirs |-> sorted,
                   files |-> files,
                   attempt |-> <<[dir |-> oldest, outcome |-> outcome]>>, errors |-> 0]
             ELSE [returned |-> TRUE, threw |-> FALSE, subDirs |-> Tail(sorted),
                   files |-> files \ {oldest},
                   attempt |-> <<[dir |-> oldest, outcome |-> outcome]>>,
                   errors |-> IF outcome = "vanished" THEN 1 ELSE 0]

\* The directories whose deletion failed among the attempts of a tick.
FailedIn(attempts) ==
    {attempts[i].dir : i \in {j \in DOMAIN attempts : attempts[j].outcome # "removed"}}

\* No stream processor is part of the behaviour.
StreamProcessorAbsent ==
    /\ m_recordingSchedule = EmptySchedule
    /\ m_motionSchedule = EmptySchedule
    /\ cameraMaxFps = 2500
    /\ motionDectorMode = "manual"
    /\ camera = {2500}
    /\ frameFormats = UsualFormats
    /\ m_requiredFileDurationSecs = 0
    /\ m_useRecordingSchedule = FALSE
    /\ m_useMotionSchedule = FALSE
    /\ m_originalFps = 2500
    /\ m_fps = 2500
    /\ m_updatePeriodMillisecs = 40
    /\ m_enableVideoWriting = FALSE
    /\ m_currentTime = <<3, 12>>
    /\ m_videoCapture = FALSE
    /\ m_videoFrame = 0
    /\ videoFrameType = "CV_8UC1"
    /\ m_currentFrame = NullImage
    /\ m_videoWriter = NullWriter
    /\ m_fileDurationSecs = 0
    /\ m_motionRectangle = "null"
    /\ m_motionDetector = << >>
    /\ m_eventThread = 0
    /\ lastCall = NoCall
    /\ usedEnable = << >>
    /\ lastFileIo = FALSE
    /\ fpsCheck = NoFpsCheck
    /\ retired = << >>
    /\ streamUrl = << >>
    /\ construction = NotConstructed
    /\ caller = NoCaller
    /\ worker = << >>
    /\ detect = NoDetection
    /\ clock = NoClock
\* the stream processor's state apart from its thread's position
recorderVars == <<cfgVars, fpsVars, recVars, m_enableVideoWriting, m_currentTime,
                  frameVars, m_motionRectangle, m_motionDetector, uiVars, obsVars,
                  ctorVars, callVars, detect, clock>>
streamVars == <<recorderVars, openIn>>

\* The state the manager's constructor leaves, the save folder existing.
InitDisk ==
    /\ StreamProcessorAbsent
    /\ disk \in SUBSET DirNames
    /\ \E days \in RetentionLimits, percent \in PercentLimits :
         manager = <<[m_maxNumDaysToStore |-> days, m_maxPercentUsedSpace |-> percent,
                      m_subDirs |-> << >>, m_eventThread |-> UPDATE_PERIOD_MS]>>
    /\ dsmObs = NoDsmObservations
    /\ openIn = NoFilesOpen
    /\ pc = "dsm_idle"
    /\ ticks = 0

\* The manager's ThreadEventCallback up to the scan; an exception from the
\* scan is caught and logged and ends the tick.
DsmThreadEventCallback ==
    /\ pc = "dsm_idle"
    /\ ticks < MaxTicks
    /\ ticks' = ticks + 1
    /\ \E scanOk \in BOOLEAN, listing \in ListSubDirectories(disk) :
         LET seen == [NoDsmObservations EXCEPT
                        !.failedEarlier = dsmObs.failedEarlier \cup FailedIn(dsmObs.attempts)]
         IN  IF scanOk
             THEN /\ manager' = <<[manager[1] EXCEPT !.m_subDirs = listing]>>
                  /\ dsmObs' = [seen EXCEPT !.scanned = disk]
                  /\ pc' = "dsm_space"
             ELSE /\ dsmObs' = [seen EXCEPT !.errors = 1, !.threw = TRUE]
                  /\ pc' = "dsm_idle"
                  /\ UNCHANGED manager
    /\ UNCHANGED <<disk, streamVars>>

\* What one call of DeleteOldestRecording from a loop does to the manager, the
\* disk and the observations; next: where the thread goes when it returned
\* true, stop: where it goes when it returned false.
DsmDelete(outcome, space, next, stop) ==
    LET r == DeleteOldestRecording(manager[1].m_subDirs, disk, outcome)
    IN  /\ manager' = <<[manager[1] EXCEPT !.m_subDirs = r.subDirs]>>
        /\ disk' = r.files
        /\ dsmObs' = [dsmObs EXCEPT
                        !.attempts = @ \o r.attempt,
                        !.errors   = @ + r.errors + (IF r.threw THEN 1 ELSE 0),
                        !.over     = TRUE,
                        !.overSpace = @ \/ space,
                        !.threw    = r.threw]
        /\ pc' = IF r.threw THEN "dsm_idle" ELSE IF r.returned THEN next ELSE stop

\* One iteration of the loop of CheckUsedDiskSpace.
CheckUsedDiskSpace ==
    /\ pc = "dsm_space"
    /\ \E percentUsed \in UsageReadings, outcome \in RemoveOutcomes :
         IF percentUsed > manager[1].m_maxPercentUsedSpace
         THEN DsmDelete(outcome, TRUE, "dsm_space", "dsm_days")
         ELSE /\ pc' = "dsm_days"
              /\ UNCHANGED diskVars
    /\ UNCHANGED <<streamVars, ticks>>

\* One iteration of the loop of CheckNumDaysDataStored.
CheckNumDaysDataStored ==
    /\ pc = "dsm_days"
    /\ \E outcome \in RemoveOutcomes :
         IF TooManyDays(manager[1].m_subDirs, manager[1].m_maxNumDaysToStore)
         THEN DsmDelete(outcome, FALSE, "dsm_days", "dsm_idle")
         ELSE /\ pc' = "dsm_idle"
              /\ UNCHANGED diskVars
    /\ UNCHANGED <<streamVars, ticks>>

\* A recorder creates the directory of a new day in the save folder.
DayDirectoryAppears ==
    /\ pc \in {"dsm_idle", "dsm_space", "dsm_days"}
    /\ \E d \in DirNames :
         /\ \A e \in disk : e < d
         /\ \A e \in DirNames : (\A f \in disk : f < e) => d <= e
         /\ disk' = disk \cup {d}
    /\ UNCHANGED <<manager, dsmObs, streamVars, pc, ticks>>

NextDisk ==
    \/ DsmThreadEventCallback
    \/ CheckUsedDiskSpace
    \/ CheckNumDaysDataStored
    \/ DayDirectoryAppears

SpecDisk == InitDisk /\ [][NextDisk]_vars

\* The event thread runs its callback to the end once it has called it.
SpecDiskFair ==
    SpecDisk /\ WF_vars(CheckUsedDiskSpace) /\ WF_vars(CheckNumDaysDataStored)

\* ---------------------------------------------------------------------------
\* The disk space manager beside the recorders that write into the save
\* folder: a stream processor and its motion detector, each seen only as the
\* directory of the output file it holds open.  Days are numbered like the
\* directories named after them.

Recorders == {"processor", "detector"}

InitDiskRecording ==
    /\ StreamProcessorAbsent
    /\ \E today \in DirNames :
         /\ disk \in SUBSET (1..today)
         /\ openIn = [NoFilesOpen EXCEPT !.today = today]
    /\ \E days \in RetentionLimits, percent \in PercentLimits :
         manager = <<[m_maxNumDaysToStore |-> days, m_maxPercentUsedSpace |-> percent,
                      m_subDirs |-> << >>, m_eventThread |-> UPDATE_PERIOD_MS]>>
    /\ dsmObs = NoDsmObservations
    /\ pc = "dsm_idle"
    /\ ticks = 0

\* The local date changes.
Midnight ==
    /\ openIn.today < MaxDirs
    /\ openIn' = [openIn EXCEPT !.today = @ + 1]
    /\ UNCHANGED <<diskVars, recorderVars, pc, ticks>>

\* CreateCaptureObjects of a recorder when it starts a file: the file it held
\* is closed, the directory named after the day of m_currentTime is created
\* unless it exists, and the new file is opened in it.
RecorderStartsFile ==
    /\ \E who \in Recorders, io \in IoOutcomes :
         /\ io = "dirFail" => openIn.today \notin disk
         /\ disk' = IF io = "dirFail" THEN disk ELSE disk \cup {openIn.today}
         /\ openIn' = [openIn EXCEPT ![who] = IF io = "ok" THEN openIn.today ELSE 0]
    /\ UNCHANGED <<manager, dsmObs, recorderVars, pc, ticks>>

\* A recorder closes its file: recording is stopped, or the hold-off expired.
RecorderClosesFile ==
    /\ \E who \in Recorders :
         /\ openIn[who] # 0
         /\ openIn' = [openIn EXCEPT ![who] = 0]
    /\ UNCHANGED <<diskVars, recorderVars, pc, ticks>>

NextDiskRecording ==
    \/ DsmThreadEventCallback
    \/ CheckUsedDiskSpace
    \/ CheckNumDaysDataStored
    \/ Midnight
    \/ RecorderStartsFile
    \/ RecorderClosesFile

SpecDiskRecording == InitDiskRecording /\ [][NextDiskRecording]_vars

\* ---------------------------------------------------------------------------
\* Construction of a stream processor.

\* Schedules of every shape: rows rows, the first of firstLen columns; row 4,
\* where there is one, of fourthLen columns; the others of 24; one cell set
\* (column 13, or the last, of the last row) or none.
ShapedRow(len, set) == [h \in 1..len |-> set /\ h = (IF len < 13 THEN len ELSE 13)]
ShapedSchedule(rows, firstLen, fourthLen, set) ==
    [d \in 1..rows |->
        ShapedRow(IF d = 1 THEN firstLen ELSE IF d = 4 THEN fourthLen ELSE 24,
                  set /\ d = rows)]
ShapedSchedules ==
    {EmptySchedule}
    \cup {ShapedSchedule(rows, firstLen, fourthLen, set) :
            rows \in {1, 6, 7, 8}, firstLen \in {23, 24, 25}, fourthLen \in {12, 24},
            set \in BOOLEAN}

\* Stream addresses, as sequences of characters.
StreamUrls ==
    { <<"0">>, <<"1", "2">>, <<"1", "2", "a">>, <<"1", ".", "2">>, << >>,
      <<"h", "t", "t", "p">>,
      <<"r", "t", "s", "p", ":", "/", "/", "c">>,
      <<"R", "t", "S", "p", ":", "/", "/", "c">>,
      <<"h", "t", "t", "p", ":", "/", "/", "c">>,
      <<"h", "t", "t", "p", "s", ":", "/", "/", "c">>,
      <<"f", "t", "p", ":", "/", "/", "c">> }

RTSP_OFFSET  == 7
HTTP_OFFSET  == 7
HTTPS_OFFSET == 8

Digits == {"0", "1", "2", "3", "4", "5", "6", "7", "8", "9"}
\* std::stoi converts when the text starts with an integer (after white space
\* and a sign), whatever follows; otherwise it throws.
RECURSIVE StoiConverts(_)
StoiConverts(text) ==
    IF text = << >> THEN FALSE
    ELSE IF Head(text) = " " THEN StoiConverts(Tail(text))
    ELSE IF Head(text) \in {"+", "-"} THEN Len(text) >= 2 /\ text[2] \in Digits
    ELSE Head(text) \in Digits

\* std::string::substr(0, n) and boost::to_upper_copy
Substr0(text, n) == SubSeq(text, 1, IF n < Len(text) THEN n ELSE Len(text))
UpperChar(c) ==
    CASE c = "r" -> "R" [] c = "t" -> "T" [] c = "s" -> "S" [] c = "p" -> "P"
      [] c = "h" -> "H" [] c = "f" -> "F" [] c = "c" -> "C" [] c = "a" -> "A"
      [] OTHER -> c
ToUpperCopy(text) == [i \in DOMAIN text |-> UpperChar(text[i])]

\* whether the address starts with one of the three schemes, in any case
HasStreamScheme(url) ==
    \/ ToUpperCopy(Substr0(url, RTSP_OFFSET)) = <<"R", "T", "S", "P", ":", "/", "/">>
    \/ ToUpperCopy(Substr0(url, HTTPS_OFFSET)) = <<"H", "T", "T", "P", "S", ":", "/", "/">>
    \/ ToUpperCopy(Substr0(url, HTTP_OFFSET)) = <<"H", "T", "T", "P", ":", "/", "/">>

\* IpCamera::CompleteStreamUrl: whether the address is a device id, and whether
\* std::invalid_argument leaves the function, which is noexcept, so that
\* std::terminate is called.
CompleteStreamUrl(url) ==
    IF StoiConverts(url) THEN [isId |-> TRUE, terminates |-> FALSE]
    ELSE IF HasStreamScheme(url) THEN [isId |-> FALSE, terminates |-> FALSE]
    ELSE [isId |-> FALSE, terminates |-> TRUE]

\* CreateVideoCapture: cv::VideoCapture(std::stoi(url)) when isId, else
\* cv::VideoCapture(url.c_str())
CaptureMadeFrom(url) == IF CompleteStreamUrl(url).isId THEN "device" ELSE "url"

FolderOutcomes == {"exists", "created", "notCreated"}

\* The arguments of a constructor call about to be made; the members have the
\* values of their default initialisers.
InitConstruct ==
    /\ m_recordingSchedule \in ShapedSchedules
    /\ m_motionSchedule \in {EmptySchedule, MixedSchedule, ShapedSchedule(7, 24, 12, TRUE)}
    /\ cameraMaxFps = 2500
    /\ motionDectorMode = "manual"
    /\ camera = {50, 2500}
    /\ frameFormats = UsualFormats
    /\ streamUrl \in StreamUrls
    /\ m_requiredFileDurationSecs = 0
    /\ m_useRecordingSchedule = FALSE
    /\ m_useMotionSchedule = FALSE
    /\ m_originalFps = 0
    /\ m_fps = 0
    /\ m_updatePeriodMillisecs = 0
    /\ m_eventThread = 0
    /\ m_videoCapture = FALSE
    /\ m_enableVideoWriting = FALSE
    /\ m_currentTime = <<3, 12>>
    /\ m_videoFrame = 0
    /\ videoFrameType = "CV_8UC1"
    /\ m_currentFrame = NullImage
    /\ m_videoWriter = NullWriter
    /\ m_fileDurationSecs = 0
    /\ m_motionRectangle = "null"
    /\ m_motionDetector = << >>
    /\ pc = "ctor"
    /\ ticks = 0
    /\ lastCall = NoCall
    /\ usedEnable = << >>
    /\ lastFileIo = FALSE
    /\ fpsCheck = NoFpsCheck
    /\ retired = << >>
    /\ construction = NotConstructed
    /\ DiskSpaceManagerAbsent
    /\ caller = NoCaller
    /\ worker = << >>
    /\ detect = NoDetection
    /\ clock = NoClock

\* The constructor leaves by an exception: the members built so far are
\* destroyed, the event thread was not yet made.
ConstructorThrows(error) ==
    /\ construction' = [NotConstructed EXCEPT !.outcome = "threw", !.error = error]
    /\ UNCHANGED <<m_useRecordingSchedule, m_useMotionSchedule, fpsVars, fpsCheck>>

\* IpFreelyStreamProcessor::IpFreelyStreamProcessor, with CreateVideoCapture.
Construct ==
    /\ pc = "ctor"
    /\ pc' = "ctor_done"
    /\ \E folder \in FolderOutcomes, opens \in BOOLEAN, r0 \in camera :
         IF VerifyScheduleThrows(m_recordingSchedule) \/ VerifyScheduleThrows(m_motionSchedule)
         THEN ConstructorThrows("invalid_argument")
         ELSE IF folder = "notCreated"
         THEN ConstructorThrows("runtime_error")
         ELSE IF CompleteStreamUrl(streamUrl).terminates
         THEN /\ construction' = [NotConstructed EXCEPT !.outcome = "terminated",
                                                         !.running = FALSE]
              /\ UNCHANGED <<m_useRecordingSchedule, m_useMotionSchedule, fpsVars, fpsCheck>>
         ELSE IF ~opens
         THEN /\ construction' = [NotConstructed EXCEPT
                                     !.outcome = "threw", !.error = "runtime_error",
                                     !.openedAs = CaptureMadeFrom(streamUrl)]
              /\ UNCHANGED <<m_useRecordingSchedule, m_useMotionSchedule, fpsVars, fpsCheck>>
         ELSE /\ m_useRecordingSchedule' = VerifySchedule(m_recordingSchedule)
              /\ m_useMotionSchedule' = VerifySchedule(m_motionSchedule)
              /\ m_videoCapture' = TRUE
              /\ m_originalFps' = r0
              /\ m_fps' = ComputeFps(cameraMaxFps, r0).fps
              /\ m_updatePeriodMillisecs' = PeriodMillisecs(m_fps')
              /\ m_eventThread' = m_updatePeriodMillisecs'
              /\ fpsCheck' = [NoFpsCheck EXCEPT !.reported = r0]
              /\ construction' = [Constructed EXCEPT !.openedAs = CaptureMadeFrom(streamUrl)]
    /\ UNCHANGED <<m_recordingSchedule, m_motionSchedule, cameraMaxFps, motionDectorMode, camera,
                   frameFormats, m_requiredFileDurationSecs, streamUrl, recVars, m_enableVideoWriting,
                   m_currentTime, frameVars, m_motionRectangle, m_motionDetector,
                   ticks, lastCall, usedEnable, lastFileIo, retired, diskVars, callVars, detect, openIn, clock>>

NextConstruct == Construct

SpecConstruct == InitConstruct /\ [][NextConstruct]_vars

\* ---------------------------------------------------------------------------
\* Properties.

\* The hold-off limit as the specification words it: ceil(fps) * 10 frames.
HoldOffFramesStated(d) == ((d.m_fps + 99) \div 100) * 10

C5_FifoExactlyOnce ==
    /\ m_motionDetector # << >> =>
          LET d == m_motionDetector[1]
          IN  d.obs.pushed = d.obs.handled \o d.queue
    /\ retired # << >> => retired[1].handled = retired[1].pushed

\* C5 witness: a detector was destroyed with two frames still queued, and its
\* worker handled them before the destructor returned.
C5_Witness ==
    /\ retired # << >>
    /\ retired[1].atDestroy = 2
    /\ retired[1].handled = retired[1].pushed
    /\ Len(retired[1].handled) >= 3

\* Whether a schedule's cell for time t is set, read straight off the grid,
\* and whether any of its cells is.
CellSet(schedule, t) == schedule # << >> /\ schedule[t[1] + 1][t[2] + 1]
SomeCellSet(schedule) ==
    \E d \in 1..Len(schedule) : \E h \in 1..Len(schedule[d]) : schedule[d][h]

\* C2 (as stated): with a non-empty recording schedule, the all-false one
\* included, the enable flag CreateCaptureObjects uses on a tick equals the
\* schedule's cell for the tick's weekday and hour, so that no file is started
\* in an inactive hour, whatever StartVideoWriting and StopVideoWriting did.
C2_ScheduleOverridesManual ==
    (m_recordingSchedule # << >> /\ usedEnable # << >>) =>
        /\ usedEnable[1].enable = CellSet(m_recordingSchedule, usedEnable[1].at)
        /\ usedEnable[1].opened => CellSet(m_recordingSchedule, usedEnable[1].at)

\* C3: with a recording schedule that has at least one true cell, a call of
\* StartVideoWriting or StopVideoWriting changes neither the enable flag nor
\* any other state of the processor.
C3_StartStopAreNoOps ==
    [][ ( /\ SomeCellSet(m_recordingSchedule)
          /\ lastCall'.method \in {"StartVideoWriting", "StopVideoWriting"} )
        => UNCHANGED procVars ]_vars

\* C3 witness: StartVideoWriting was called under such a schedule in an hour
\* whose cell is false, and the flag is still false.
C3_Witness ==
    /\ SomeCellSet(m_recordingSchedule)
    /\ lastCall.method = "StartVideoWriting"
    /\ ~CellSet(m_recordingSchedule, m_currentTime)
    /\ ticks >= 1
    /\ ~m_enableVideoWriting

C6_AtMostOneOpenFile ==
    /\ m_videoWriter.held <= 1
    /\ m_videoWriter.peak <= 1
    /\ m_motionDetector # << >> =>
          /\ m_motionDetector[1].m_videoWriter.held <= 1
          /\ m_motionDetector[1].m_videoWriter.peak <= 1

\* C6 witness: the processor and its detector have each rotated to a further
\* file and each holds one open file.
C6_Witness ==
    /\ m_videoWriter.again
    /\ m_videoWriter.held = 1
    /\ m_motionDetector # << >>
    /\ m_motionDetector[1].m_videoWriter.again
    /\ m_motionDetector[1].m_videoWriter.held = 1

\* What an FPS check that re-initialises leaves behind: a new capture, a new
\* timer with period 1000 / fps, no open output file, and, where a detector
\* existed, a new detector built for the new FPS.
ReinitialisedForFps ==
    /\ fpsCheck.newCapture
    /\ fpsCheck.newTimer
    /\ m_updatePeriodMillisecs = 100000 \div m_fps
    /\ m_eventThread = 100000 \div m_fps
    /\ ~m_videoWriter.open
    /\ m_videoWriter.held = 0
    /\ fpsCheck.hadDetector =>
          /\ fpsCheck.newDetector
          /\ m_motionDetector # << >>
          /\ m_motionDetector[1].m_fps = m_fps
          /\ m_motionDetector[1].m_holdOffFrameCountLimit
               = HoldOffFramesStated(m_motionDetector[1])
          /\ m_motionDetector[1].obs.pushed = << >>

C8_DetectorIffScheduleActive ==
    pc = "create" =>
        LET active == CellSet(m_motionSchedule, m_currentTime)
        IN  /\ (m_motionDetector # << >>) = active
            /\ ~active => m_motionRectangle = "null"

\* C8 witness: a tick in an inactive hour has destroyed the detector an earlier
\* tick had created.
C8_Witness ==
    /\ pc = "create"
    /\ ~CellSet(m_motionSchedule, m_currentTime)
    /\ retired # << >>
    /\ Len(retired[1].pushed) >= 1
    /\ m_motionDetector = << >>

\* C9 (as stated): after construction and after every FPS check the recording
\* FPS does not exceed the FPS the camera reported last.
C9_NeverExceedsReported ==
    (pc = "idle" /\ (ticks = 0 \/ fpsCheck.done)) => m_fps <= fpsCheck.reported

\* C9 (amended): after construction and after every FPS check the recording
\* FPS does not exceed the larger of 1.0 and the FPS the camera reported last
\* plus 0.1.
C9_BoundedByReported ==
    (pc = "idle" /\ (ticks = 0 \/ fpsCheck.done)) =>
        m_fps <= Max(100, fpsCheck.reported + 10)

\* C9 witness: a check has finished with the recording FPS above the reported
\* one, the camera still reporting at least 1 fps.
C9_Witness ==
    /\ pc = "idle"
    /\ fpsCheck.done
    /\ fpsCheck.reported >= 100
    /\ m_fps > fpsCheck.reported

\* C10: the recording FPS is always within [1.0, 60.0], and so the pump period
\* and the timer's period are between 16 and 1000 ms.
C10_FpsWithinLimits ==
    /\ m_fps >= 100
    /\ m_fps <= 6000
    /\ m_updatePeriodMillisecs >= 16
    /\ m_updatePeriodMillisecs <= 1000
    /\ m_eventThread >= 16
    /\ m_eventThread <= 1000

\* C10 witness: a check on a camera reporting less than 1 fps left the
\* recording FPS at 1.0 and the period at 1000 ms.
C10_Witness ==
    /\ fpsCheck.done
    /\ fpsCheck.reported < 100
    /\ fpsCheck.recording > 100
    /\ m_fps = 100
    /\ m_eventThread = 1000

\* An FPS check on a processor recording at 25 fps found the camera at 15 fps.
CheckedFrom25To15 ==
    /\ fpsCheck.done
    /\ fpsCheck.original = 2500
    /\ fpsCheck.recording = 2500
    /\ fpsCheck.reported = 1500

\* The period a processor with preferred maximum 25 fps has after construction
\* on a camera reporting 25 fps: 40 ms.
StartsAt40ms ==
    (ticks = 0 /\ pc = "idle" /\ cameraMaxFps = 2500 /\ m_originalFps = 2500)
        => m_updatePeriodMillisecs = 40

\* C11 (as stated): preferred maximum 25 fps and a camera reporting 25 fps give
\* a period of 40 ms, and when the capture later reports 15 fps the period is
\* 67 ms once that FPS check has run.
C11_PeriodBecomes67 ==
    /\ StartsAt40ms
    /\ CheckedFrom25To15 => m_updatePeriodMillisecs = 67

\* C11 (amended): the same scenario, with the period 1000 / 15 truncated to
\* whole milliseconds: 66 ms.
C11_PeriodBecomes66 ==
    /\ StartsAt40ms
    /\ CheckedFrom25To15 => m_updatePeriodMillisecs = 66

\* C11 witness: the check that saw the camera go from 25 to 15 fps has run and
\* the recording FPS is 15.
C11_Witness ==
    /\ CheckedFrom25To15
    /\ m_fps = 1500
    /\ m_updatePeriodMillisecs = 66

\* The directories a tick attempted to delete, in the order of the attempts,
\* and the greatest name of a non-empty set of directories.
AttemptedDirs == [i \in DOMAIN dsmObs.attempts |-> dsmObs.attempts[i].dir]
Greatest(S) == CHOOSE x \in S : \A y \in S : y <= x
DsmTickOver == pc = "dsm_idle" /\ ticks >= 1

\* C12: whatever the disk usage and the retention limit, the manager makes no
\* deletion attempt on the greatest directory its scan found; that directory
\* stays on disk and in the manager's list, so that a list of one directory
\* loses nothing.
C12_GreatestNeverDeleted ==
    dsmObs.scanned # {} =>
        LET last == Greatest(dsmObs.scanned)
        IN  /\ \A i \in DOMAIN dsmObs.attempts : dsmObs.attempts[i].dir # last
            /\ last \in disk
            /\ \E i \in DOMAIN manager[1].m_subDirs : manager[1].m_subDirs[i] = last

\* C12 witness: with usage above the threshold throughout and a retention
\* limit of 0, a tick that scanned three directories has deleted two and
\* ended with the greatest alone.
C12_Witness ==
    /\ DsmTickOver
    /\ dsmObs.overSpace
    /\ manager[1].m_maxNumDaysToStore = 0
    /\ Cardinality(dsmObs.scanned) = 3
    /\ Len(dsmObs.attempts) = 2
    /\ manager[1].m_subDirs = <<Greatest(dsmObs.scanned)>>
    /\ disk \cap dsmObs.scanned = {Greatest(dsmObs.scanned)}

\* C13: a tick that found usage at or below the threshold, scanned n
\* directories under a retention limit r >= 1, and whose deletions all
\* succeeded has deleted exactly the n - r smallest, oldest first (none when
\* n <= r).
C13_DeletesOldestBeyondLimit ==
    ( /\ DsmTickOver
      /\ ~dsmObs.threw
      /\ ~dsmObs.overSpace
      /\ manager[1].m_maxNumDaysToStore >= 1
      /\ \A i \in DOMAIN dsmObs.attempts : dsmObs.attempts[i].outcome = "removed" )
    => LET n == Cardinality(dsmObs.scanned)
           r == manager[1].m_maxNumDaysToStore
           k == IF n > r THEN n - r ELSE 0
           oldestFirst == Ascending(SetToSeq(dsmObs.scanned))
       IN  /\ AttemptedDirs = SubSeq(oldestFirst, 1, k)
           /\ disk \cap dsmObs.scanned = {oldestFirst[i] : i \in (k + 1)..n}

\* C13 witness: three directories and a retention limit of 2; the tick deleted
\* the smallest only.
C13_Witness ==
    /\ DsmTickOver
    /\ ~dsmObs.overSpace
    /\ manager[1].m_maxNumDaysToStore = 2
    /\ dsmObs.scanned = {1, 2, 3}
    /\ dsmObs.attempts = <<[dir |-> 1, outcome |-> "removed"]>>
    /\ disk = {2, 3}

\* C14: within a tick no directory is attempted twice and every failed
\* deletion is logged; and a tick that called for a deletion has attempted
\* every directory it scanned whose deletion failed in an earlier tick.
C14_FailedDeletionRetriedNextTick ==
    /\ \A i, j \in DOMAIN dsmObs.attempts :
          i # j => dsmObs.attempts[i].dir # dsmObs.attempts[j].dir
    /\ dsmObs.errors >= Cardinality(FailedIn(dsmObs.attempts))
    /\ (DsmTickOver /\ dsmObs.over) =>
          \A f \in dsmObs.failedEarlier \cap dsmObs.scanned :
              \E i \in DOMAIN dsmObs.attempts : dsmObs.attempts[i].dir = f

\* C14 witness: a directory whose deletion threw in the first tick was
\* attempted again, and removed, in the second.
C14_Witness ==
    /\ DsmTickOver
    /\ \E i \in DOMAIN dsmObs.attempts :
          /\ dsmObs.attempts[i].dir \in dsmObs.failedEarlier
          /\ dsmObs.attempts[i].outcome = "removed"

\* The deletion attempts a tick has made and can still make are at most n - 1
\* for n scanned directories, and an exception leaves the thread waiting for
\* its next tick.
DsmAttemptsBounded ==
    LET n == Cardinality(dsmObs.scanned)
        most == IF n >= 1 THEN n - 1 ELSE 0
        left == IF pc \in {"dsm_space", "dsm_days"} /\ Len(manager[1].m_subDirs) >= 1
                THEN Len(manager[1].m_subDirs) - 1 ELSE 0
    IN  /\ Len(dsmObs.attempts) + left <= most
        /\ dsmObs.threw => pc = "dsm_idle"

\* C15: every tick ends, with the thread back waiting for the next one, after
\* at most n - 1 deletion attempts for n scanned directories, also when usage
\* stays above the threshold or deletions fail or throw.
C15_TickTerminates ==
    /\ []DsmAttemptsBounded
    /\ (pc # "dsm_idle") ~> (pc = "dsm_idle")

\* C15 witness: a tick that scanned four directories, found usage above the
\* threshold every time and saw every deletion fail, has ended after three
\* attempts.
C15_Witness ==
    /\ DsmTickOver
    /\ dsmObs.overSpace
    /\ Cardinality(dsmObs.scanned) = 4
    /\ Len(dsmObs.attempts) = 3
    /\ \A i \in DOMAIN dsmObs.attempts : dsmObs.attempts[i].outcome = "vanished"

\* ---- construction

\* A schedule of exactly 7 rows of exactly 24 columns each.
WellShaped(schedule) ==
    Len(schedule) = 7 /\ \A d \in 1..7 : Len(schedule[d]) = 24
Malformed(schedule) == schedule # << >> /\ ~WellShaped(schedule)
ConstructorLeft == pc = "ctor_done"
FailedWith(error) == construction.outcome = "threw" /\ construction.error = error

\* C16 (as stated): once the constructor has been left, a non-empty schedule
\* that is not 7 rows of 24 columns each (a 24-column first row with a shorter
\* other row included) has made it fail with the shape error
\* std::invalid_argument, and an empty schedule is taken as not enabled.
C16_MalformedScheduleRejected ==
    ConstructorLeft =>
        /\ (Malformed(m_recordingSchedule) \/ Malformed(m_motionSchedule))
              => FailedWith("invalid_argument")
        /\ (construction.outcome = "constructed" /\ m_recordingSchedule = EmptySchedule)
              => ~m_useRecordingSchedule

\* C17: IsScheduleEnabled is true exactly for the schedules with a cell set
\* (false for the all-false and the empty one), and for a schedule of 7 rows
\* of 24 columns VerifySchedule returns the same value, which a construction
\* that succeeds stores as the use-schedule member.
C17_EnabledIffSomeCellSet ==
    /\ \A schedule \in {m_recordingSchedule, m_motionSchedule, AllFalseSchedule} :
          /\ IsScheduleEnabled(schedule) <=> SomeCellSet(schedule)
          /\ WellShaped(schedule) =>
                /\ ~VerifyScheduleThrows(schedule)
                /\ VerifySchedule(schedule) = IsScheduleEnabled(schedule)
    /\ ~IsScheduleEnabled(EmptySchedule)
    /\ ~IsScheduleEnabled(AllFalseSchedule)
    /\ (construction.outcome = "constructed" /\ WellShaped(m_recordingSchedule))
          => m_useRecordingSchedule = SomeCellSet(m_recordingSchedule)
    /\ (construction.outcome = "constructed" /\ WellShaped(m_motionSchedule))
          => m_useMotionSchedule = SomeCellSet(m_motionSchedule)

C17_Witness ==
    /\ construction.outcome = "constructed"
    /\ WellShaped(m_recordingSchedule)
    /\ m_recordingSchedule[7][13]
    /\ ~m_recordingSchedule[1][13]
    /\ m_useRecordingSchedule
    /\ m_motionSchedule = EmptySchedule
    /\ ~m_useMotionSchedule

\* A stream address written as an integer, and one that starts with one of
\* the three schemes as they are written.
IsInteger(text) == text # << >> /\ \A i \in DOMAIN text : text[i] \in Digits
IsStreamAddress(text) ==
    \/ IsInteger(text)
    \/ Substr0(text, RTSP_OFFSET) = <<"r", "t", "s", "p", ":", "/", "/">>
    \/ Substr0(text, HTTP_OFFSET) = <<"h", "t", "t", "p", ":", "/", "/">>
    \/ Substr0(text, HTTPS_OFFSET) = <<"h", "t", "t", "p", "s", ":", "/", "/">>

\* C18 (as stated): a malformed schedule or a stream address that is neither
\* an integer nor an rtsp://, http:// or https:// URL makes the constructor
\* throw to its caller, the process still running and neither a capture
\* handle nor a pump timer left.
C18_ConfigurationErrorFailsConstruction ==
    (/\ ConstructorLeft
     /\ \/ Malformed(m_recordingSchedule)
        \/ Malformed(m_motionSchedule)
        \/ ~IsStreamAddress(streamUrl))
    => /\ construction.outcome = "threw"
       /\ construction.running
       /\ ~construction.capture
       /\ ~construction.timer
       /\ ~m_videoCapture
       /\ m_eventThread = 0

\* ---- failures starting an output file

\* C19: when CreateCaptureObjects fails to create the dated directory or to
\* open the video writer, it leaves no open writer and the enable flag as it
\* was, the pump's timer stays as it is and its thread goes on (to
\* WriteVideoFrame, or to the end of the tick when the failure was an
\* exception); and the CreateCaptureObjects after a failed one, the flag still
\* being set, attempts to start a file again.
C19_FailedStartIsRetried ==
    [][(pc = "create" /\ pc' # "create") =>
          /\ m_enableVideoWriting' = m_enableVideoWriting
          /\ usedEnable'[1].failed =>
                /\ ~m_videoWriter'.open
                /\ m_videoWriter'.held = 0
                /\ m_eventThread' = m_eventThread
                /\ m_eventThread' # 0
                /\ pc' \in {"write", "idle"}
                /\ lastFileIo'
          /\ (lastFileIo /\ m_enableVideoWriting) =>
                /\ ~m_videoWriter.open
                /\ usedEnable'[1].opened \/ usedEnable'[1].failed]_vars

C19_Witness ==
    /\ usedEnable # << >>
    /\ usedEnable[1].after
    /\ usedEnable[1].opened
    /\ m_videoWriter.open
    /\ ticks = 2

\* ---- frames of an unsupported type

\* C20 (as stated): after GrabVideoFrame has grabbed a frame whose type
\* CvMatToQImage does not convert, the image CurrentVideoFrame returns is the
\* null image, not one made from an earlier frame.
C20_UnsupportedFrameGivesEmptyImage ==
    (/\ m_videoFrame # 0
     /\ ~CvMatToQImage(m_videoFrame, videoFrameType, m_currentFrame).ok)
    => CurrentVideoFrame = {"null"}

\* ---- copies of the grabbed frame

\* C21 (as stated): the frames waiting in the motion detector's queue and the
\* image handed to display consumers share no pixel buffer with m_videoFrame:
\* a queued frame can only show the frame it was queued as, whatever the pump
\* grabbed since, and the QImage owns its pixels.
C21_CopiesShareNoBuffer ==
    /\ (Pumping /\ m_motionDetector # << >>) =>
          \A i \in DOMAIN m_motionDetector[1].queue :
             QueuedFrameShows(m_motionDetector[1].queue[i])
                = {m_motionDetector[1].queue[i]}
    /\ ~m_currentFrame.shares

\* ---- device index or network path

\* C22 (as stated): the capture is made from a device index exactly when the
\* stream address is a pure integer; an address that only starts with digits
\* is opened as a path.
C22_DeviceIndexIffInteger ==
    (ConstructorLeft /\ construction.openedAs # "none") =>
        (construction.openedAs = "device" <=> IsInteger(streamUrl))

\* ---- the detector pointer and the display thread

\* C23 (as stated): the display thread reads the motion-detector pointer
\* holding a mutex, so that between its test of the pointer and its use of the
\* detector the pump thread has neither reset the pointer nor begun to destroy
\* the detector.
C23_DetectorUsedUnderMutex ==
    caller.at = "deref" =>
        /\ caller.holds # {}
        /\ ~DetectorGoing

\* ---- the recording indicator while a file is rotated

\* C24 (as stated): a call of VideoWritingEnabled() that returns while the
\* detector's worker is between closing a full file and opening the next one,
\* which opens, does not return false.
C24_IndicatorStaysOnAcrossRotation ==
    (/\ worker # << >>
     /\ worker[1].io = "ok"
     /\ lastCall.method = "VideoWritingEnabled")
    => lastCall.returned

\* ---- rotation of output files

\* CreateCaptureObjects of the stream processor runs on an open file while
\* recording is enabled; WriteVideoFrame runs.
CreatesOnOpenFile ==
    pc = "create" /\ pc' # "create" /\ m_enableVideoWriting /\ m_videoWriter.open
WritesFrame == pc = "write" /\ pc' # "write"

\* The detector's worker handles a frame on an open file, and the session goes
\* on: the frame has a motion event or the hold-off count does not reach its
\* limit.
HandlesOnOpenFile ==
    /\ m_motionDetector # << >>
    /\ m_motionDetector' # << >>
    /\ Len(m_motionDetector'[1].obs.handled) = Len(m_motionDetector[1].obs.handled) + 1
    /\ m_motionDetector[1].m_videoWriter.open
    /\ \/ m_motionDetector'[1].obs.quiet = 0
       \/ m_motionDetector[1].m_holdOffFrameCount + 1
             # m_motionDetector[1].m_holdOffFrameCountLimit

\* A duration below the required one leaves the file and adds the written
\* frame's period.
ProcessorKeepsFile ==
    (CreatesOnOpenFile /\ m_fileDurationSecs < m_requiredFileDurationSecs)
    => (m_videoWriter' = m_videoWriter /\ m_fileDurationSecs' = m_fileDurationSecs)
ProcessorCountsFrame ==
    (WritesFrame /\ m_videoWriter.open)
    => /\ m_videoWriter' = m_videoWriter
       /\ m_fileDurationSecs' = m_fileDurationSecs + m_updatePeriodMillisecs
DetectorKeepsFile ==
    (HandlesOnOpenFile /\ m_motionDetector[1].m_fileDurationSecs
                             < m_motionDetector[1].m_requiredFileDurationSecs)
    => /\ m_motionDetector'[1].m_videoWriter = m_motionDetector[1].m_videoWriter
       /\ m_motionDetector'[1].m_fileDurationSecs
             = m_motionDetector[1].m_fileDurationSecs
                  + m_motionDetector[1].m_updatePeriodMillisecs

C25_WitnessKept ==
    /\ Pumping
    /\ m_videoWriter.open
    /\ ~m_videoWriter.again
    /\ m_fileDurationSecs = 2 * m_updatePeriodMillisecs

----------------------------------------------------------------------------
\* The worker handled one more frame of the same detector in this step.
HandlesFrame ==
    /\ m_motionDetector # << >>
    /\ m_motionDetector' # << >>
    /\ Len(m_motionDetector'[1].obs.handled) = Len(m_motionDetector[1].obs.handled) + 1

\* That frame had a qualifying motion event: the observer's count of frames
\* since the last one with an event is back at zero.
HandledFrameHadMotion == m_motionDetector'[1].obs.quiet = 0

\* C26: from a state with no motion session open, the detector opens one only
\* on a frame with a qualifying motion event, a frame without one never opens a
\* session, and every frame with one leaves the hold-off counter at zero.
C26_SessionOpensOnlyOnMotion ==
    [][HandlesFrame =>
         /\ (~m_motionDetector[1].m_videoWriter.open
               /\ m_motionDetector'[1].m_videoWriter.open) => HandledFrameHadMotion
         /\ (~m_motionDetector[1].m_videoWriter.open /\ ~HandledFrameHadMotion)
               => /\ ~m_motionDetector'[1].m_videoWriter.open
                  /\ ~m_motionDetector'[1].m_writingStream
                  /\ m_motionDetector'[1].m_videoWriter.held = 0
         /\ HandledFrameHadMotion => m_motionDetector'[1].m_holdOffFrameCount = 0]_vars

\* The first frame handled had no motion event and opened nothing; the second
\* had one and opened the first session, whose file holds that one frame.
C26_Witness ==
    /\ m_motionDetector # << >>
    /\ Len(m_motionDetector[1].obs.handled) = 2
    /\ m_motionDetector[1].obs.quiet = 0
    /\ m_motionDetector[1].m_videoWriter.open
    /\ m_motionDetector[1].m_videoWriter.peak = 1
    /\ m_motionDetector[1].m_fileDurationSecs = m_motionDetector[1].m_updatePeriodMillisecs
    /\ m_motionDetector[1].m_holdOffFrameCount = 0

----------------------------------------------------------------------------
\* The pixels a rectangle covers, and those a region of interest covers once it
\* is scaled to the original frame.
RectPixels(r) == (r.x..(r.x + r.width - 1)) \X (r.y..(r.y + r.height - 1))
RegionPixels(s, region) ==
    LET q == CreateQRectFromVideoFrameDims(s.m_originalWidth, s.m_originalHeight, region)
    IN  (q.x1..q.x2) \X (q.y1..q.y2)
TouchesRegion(s) ==
    \E region \in s.motionRegions :
      RectPixels(s.m_motionBoundingRect) \cap RegionPixels(s, region) # {}
Qualifies(s) ==
    Area(s.m_motionBoundingRect) # 0 /\ (s.motionRegions = {} \/ TouchesRegion(s))

\* DetectMotion judged one more frame in this step.
JudgesFrame == detect'.frames = detect.frames + 1

----------------------------------------------------------------------------
\* C28: with a smoothing factor in [0, 1], every frame on the decay path leaves
\* the rectangle's area no larger than it was, and once the frames on that path
\* in a row number k with 4^k above the height the rectangle started from, the
\* area is zero and no motion event is reported.
C28_DecayReachesZero ==
    [][(JudgesFrame /\ detect'.path = "decay") =>
         /\ Area(detect'.m_motionBoundingRect) <= Area(detect.m_motionBoundingRect)
         /\ (4 ^ detect'.decays > detect'.decayFrom) =>
              /\ Area(detect'.m_motionBoundingRect) = 0
              /\ ~detect'.event
              /\ ~HandledFrameHadMotion]_vars

\* A rectangle at least four pixels high, smoothed with a factor strictly
\* between 0 and 1, still had an area after one frame without motion.
C28_WitnessDecaying ==
    /\ detect.motionAreaAveFactor \in 1..(FactorScale - 1)
    /\ detect.decays = 1
    /\ detect.decayFrom >= 4
    /\ Area(detect.m_motionBoundingRect) > 0

\* Such a rectangle has lost its area after the second frame without motion,
\* and that frame reported no motion event.
C28_Witness ==
    /\ detect.motionAreaAveFactor \in 1..(FactorScale - 1)
    /\ detect.decays = 2
    /\ detect.decayFrom >= 4
    /\ Area(detect.m_motionBoundingRect) = 0
    /\ ~detect.event

----------------------------------------------------------------------------
\* C29: on a frame whose standard deviation of the thresholded motion is not
\* below the configured maximum no changed pixel is looked for: the rectangle
\* takes the decay path and its area does not grow, whatever the minimum
\* motion area (>= 0) and the smoothing factor (in [0, 1]) are.
C29_TooMuchMotionSuppressed ==
    [][(JudgesFrame /\ detect'.suppressed) =>
         /\ detect'.path = "decay"
         /\ detect'.m_motionBoundingRect
              = Decayed(detect.m_motionBoundingRect, detect.motionAreaAveFactor)
         /\ Area(detect'.m_motionBoundingRect) <= Area(detect.m_motionBoundingRect)]_vars

\* With a minimum motion area of zero, a frame with too much motion met a
\* rectangle with an area and left it smaller but not yet empty.
C29_Witness ==
    /\ detect.suppressed
    /\ detect.m_minImageChangeArea = 0
    /\ detect.path = "decay"
    /\ detect.decays = 1
    /\ detect.decayFrom > 0
    /\ Area(detect.m_motionBoundingRect) > 0

----------------------------------------------------------------------------
\* The steps of a pump tick in the order of ThreadEventCallback, with the waits
\* for a detector's destructor and the exception that ends a tick early.
TickOrder ==
    {<<"idle", "grab">>, <<"grab", "sched">>, <<"sched", "motion">>,
     <<"motion", "create">>, <<"motion", "md_reset">>, <<"md_reset", "create">>,
     <<"create", "write">>, <<"create", "idle">>, <<"write", "fps">>,
     <<"fps", "idle">>, <<"fps", "fps_reset">>, <<"fps_reset", "idle">>}

\* The frame the detector was handed last.
LastPushed(d) == d.obs.pushed[Len(d.obs.pushed)]

\* C30: in every pump tick the steps run in the order grab, recording schedule,
\* motion detector, file create/rotate, frame write, FPS check; the frame handed
\* to the detector and the frame written to the file in a tick are the frame
\* grabbed in that tick, and the FPS check starts only from the frame write.
C30_StepsInOrder ==
    [][/\ pc' # pc => <<pc, pc'>> \in TickOrder
       /\ (pc = "grab" /\ pc' # pc) => m_videoFrame' = ticks
       /\ (pc = "motion" /\ pc' = "create" /\ m_motionDetector' # << >>) =>
            /\ m_videoFrame = ticks
            /\ LastPushed(m_motionDetector'[1]) = ticks
            /\ m_motionDetector'[1].queue[Len(m_motionDetector'[1].queue)] = ticks
       /\ (pc = "write" /\ pc' # pc) =>
            /\ m_videoFrame = ticks
            /\ m_videoWriter.open
                 => m_fileDurationSecs' = m_fileDurationSecs + m_updatePeriodMillisecs
       /\ (pc = "fps" /\ pc' # pc) =>
            /\ m_videoFrame = ticks
            /\ m_fileDurationSecs' = m_fileDurationSecs
            /\ (usedEnable # << >> /\ usedEnable[1].opened)
                 => m_fileDurationSecs >= m_updatePeriodMillisecs]_vars

\* The FPS check of the second tick is due: the frame grabbed in that tick was
\* handed to the detector and written to the file opened in this tick.
C30_Witness ==
    /\ pc = "fps"
    /\ ticks = 2
    /\ m_videoFrame = 2
    /\ m_motionDetector # << >>
    /\ LastPushed(m_motionDetector[1]) = 2
    /\ m_videoWriter.open
    /\ usedEnable # << >>
    /\ usedEnable[1].opened
    /\ m_fileDurationSecs = m_updatePeriodMillisecs

----------------------------------------------------------------------------
\* C31: once the detector has handled a frame, whatever the frames were and
\* whichever writers or directories failed, WritingStream() is true exactly
\* when the detector holds an open output file.
C31_WritingStreamIffFileOpen ==
    m_motionDetector # << >> =>
        /\ WritingStream(m_motionDetector[1]) <=> m_motionDetector[1].m_videoWriter.open
        /\ WritingStream(m_motionDetector[1]) <=> m_motionDetector[1].m_videoWriter.held = 1

\* A session was open, and a frame without motion that had to rotate its file
\* could not start the new one: no file is open and WritingStream() is false.
C31_Witness ==
    /\ m_motionDetector # << >>
    /\ m_motionDetector[1].obs.ioLost
    /\ m_motionDetector[1].m_videoWriter.peak >= 1
    /\ ~m_motionDetector[1].m_videoWriter.open
    /\ ~WritingStream(m_motionDetector[1])

----------------------------------------------------------------------------
\* The directories that hold a file some recorder has open.
DirectoriesInUse == {openIn.processor, openIn.detector} \ {0}

\* C32: however the manager's ticks interleave with the recorders, no day
\* directory that holds a file open for writing leaves the disk.
C32_OpenFileDirectoryKept ==
    [][\A d \in disk \ disk' : d \notin DirectoriesInUse]_vars

----------------------------------------------------------------------------
\* C33: no recorder opens a file at a path at which it has opened one before,
\* whether the earlier file was rotated, stopped and restarted, or closed by an
\* FPS change or a hold-off expiry within the same second.
C33_PathsNeverRepeat == clock.again = {}

----------------------------------------------------------------------------
\* The capture is closed and the rate recorded as reported is the 0 a closed
\* capture reports: no later FPS check finds a drift, so none re-initialises.
NoCheckWillRetry == ~m_videoCapture /\ m_originalFps = 0

\* The objects made from the recording rate agree with the rate recorded.
RunsAtRecordedFps ==
    /\ m_eventThread = m_updatePeriodMillisecs
    /\ m_motionDetector # << >> => m_motionDetector[1].m_fps = m_fps

\* C34: a re-initialisation whose capture could not be re-opened is retried on
\* a later tick, so the processor is not left, with no retry to come, holding
\* the new rates and period while its timer and detector run at the old ones.
C34_FailedReopenIsRetried ==
    (pc = "idle" /\ NoCheckWillRetry) => RunsAtRecordedFps

----------------------------------------------------------------------------
\* The FPS check of this tick re-created the event thread, and the callback
\* has returned.
Reinitialised == pc = "idle" /\ fpsCheck.done /\ fpsCheck.newTimer

----------------------------------------------------------------------------
\* An FPS check has finished on an open capture and the rate recorded as
\* reported is the rate the capture reported to it.
FpsCheckedAtReported ==
    pc = "idle" /\ fpsCheck.done /\ m_videoCapture /\ m_originalFps = fpsCheck.reported

\* C36: after an FPS check the recording FPS is the one the camera's preferred
\* maximum and the reported FPS give (what the constructor computes for a
\* capture reporting that rate), whatever was reported before.
C36_RecordingFpsFromReportedOnly ==
    FpsCheckedAtReported => m_fps = ComputeFps(cameraMaxFps, m_originalFps).fps

----------------------------------------------------------------------------
\* The rectangle lies within a frame of the given size.
WithinFrame(r, width, height) ==
    /\ 0 <= r.x /\ r.x + r.width <= width
    /\ 0 <= r.y /\ r.y + r.height <= height

\* C37: after any sequence of frames and for every smoothing factor, the
\* rectangle CurrentMotionRect returns lies within the original frame, after a
\* blending step as after a decay step.
C37_RectangleWithinFrame ==
    WithinFrame(detect.m_motionBoundingRect, detect.m_originalWidth,
                detect.m_originalHeight)

----------------------------------------------------------------------------
\* C38: with the camera's motion-detector mode off, the stream processor has
\* no motion detector, whatever the motion schedule contains (and so no
\* detector's recording session either).
C38_ModeOffNoDetector ==
    motionDectorMode = "off" => m_motionDetector = << >>

====
